---- MODULE Spec2Model ----
(***************************************************************************)
(* Model of the shipping-webhook reconciliation engine:                    *)
(*   src/pages/api/webhooks/shipping-update.ts  (webhook entry point)      *)
(*   src/pages/api/force-status.ts              (manual override)          *)
(* One invocation is a sequential async pipeline; every `await` of a       *)
(* remote call is one step of the model, the synchronous code that follows *)
(* it up to the next `await` belongs to the same step.  The remote         *)
(* commerce platform (one order: tags, fulfillments, fulfillment orders),  *)
(* the settings store and the log store are shared state.                  *)
(***************************************************************************)
EXTENDS Integers, Sequences, FiniteSets, TLC

VARIABLES
  inv,            \* inv[i]: local state of invocation i (one handler call)
  remoteTags,     \* the order's tags field in the remote system (a string)
  remoteFuls,     \* the order's fulfillments in the remote system
  remoteFOs,      \* the order's fulfillment orders in the remote system
  settingsDB,     \* rows of the settings table
  logs,           \* rows of the webhook_logs table (append-only)
  envSteps,       \* number of external mutations of the remote order so far
  appeared        \* history: an actionable fulfillment or open FO has existed remotely

vars == <<inv, remoteTags, remoteFuls, remoteFOs, settingsDB, logs, envSteps, appeared>>

\* ---------------------------------------------------------------- bounds
MaxRuns == 2
MaxEnvSteps == 1

\* ------------------------------------------------------ program constants
MaxAttempts == 3

Inv == 1..MaxRuns

\* ------------------------------------------------------------- strings
\* A string is a sequence of one-character strings.
NoStr == <<>>

HasComma(s) == \E k \in 1..Len(s) : s[k] = ","
FirstComma(s) == CHOOSE k \in 1..Len(s) : s[k] = "," /\ \A j \in 1..(k-1) : s[j] # ","

\* String.prototype.split(',')
RECURSIVE Split(_)
Split(s) ==
  IF ~HasComma(s) THEN <<s>>
  ELSE <<SubSeq(s, 1, FirstComma(s) - 1)>> \o Split(SubSeq(s, FirstComma(s) + 1, Len(s)))

\* String.prototype.trim() (the only whitespace of the alphabet is the blank)
RECURSIVE TrimLeft(_)
TrimLeft(s) == IF s # <<>> /\ Head(s) = " " THEN TrimLeft(Tail(s)) ELSE s
RECURSIVE TrimRight(_)
TrimRight(s) ==
  IF s # <<>> /\ s[Len(s)] = " " THEN TrimRight(SubSeq(s, 1, Len(s) - 1)) ELSE s
Trim(s) == TrimRight(TrimLeft(s))

\* Array.prototype.join(',')
RECURSIVE Join(_)
Join(toks) ==
  IF toks = <<>> THEN <<>>
  ELSE IF Len(toks) = 1 THEN toks[1]
  ELSE toks[1] \o <<",">> \o Join(Tail(toks))

Includes(toks, t) == \E k \in 1..Len(toks) : toks[k] = t

\* order.tags ? order.tags.split(',').map(t => t.trim()) : []
CurrentTags(tags) ==
  IF tags = <<>> THEN <<>>
  ELSE [k \in 1..Len(Split(tags)) |-> Trim(Split(tags)[k])]

\* [...currentTags, specificTag].join(',')
NewTags(tags, specificTag) == Join(Append(CurrentTags(tags), specificTag))

\* the tag set of a tags string, as the remote system reads it
TagSet(tags) == {CurrentTags(tags)[k] : k \in 1..Len(CurrentTags(tags))}

\* ------------------------------------------------------------ settings
\* Values of the boolean-like settings are JSON texts: true, false, or a
\* JSON string such as "false".  JavaScript truthiness of the parsed value:
Truthy(json) == json \notin {"false", "null", "0", "\"\""}

\* variant of DefaultSettings: tagging is on by default
DefaultSettingsTaggingOn ==
  [system_enabled |-> "true", tagging_enabled |-> "true", tag_name |-> <<"a">>,
   fulfillment_update_enabled |-> "false", fulfillment_status |-> "in_transit"]

\* lines 36-42: let settings = { ... }
DefaultSettings ==
  [system_enabled |-> "true", tagging_enabled |-> "false", tag_name |-> <<"a">>,
   fulfillment_update_enabled |-> "false", fulfillment_status |-> "in_transit"]

SettingKeys ==
  {"system_enabled", "tagging_enabled", "tag_name", "fulfillment_update_enabled",
   "fulfillment_status"}

\* settingsResult.rows.forEach(row => settings[row.key] = row.value)
LoadedSettings(db) ==
  [system_enabled |->
     IF "system_enabled" \in db.present THEN db.val.system_enabled
     ELSE DefaultSettings.system_enabled,
   tagging_enabled |->
     IF "tagging_enabled" \in db.present THEN db.val.tagging_enabled
     ELSE DefaultSettings.tagging_enabled,
   tag_name |->
     IF "tag_name" \in db.present THEN db.val.tag_name ELSE DefaultSettings.tag_name,
   fulfillment_update_enabled |->
     IF "fulfillment_update_enabled" \in db.present
     THEN db.val.fulfillment_update_enabled
     ELSE DefaultSettings.fulfillment_update_enabled,
   fulfillment_status |->
     IF "fulfillment_status" \in db.present THEN db.val.fulfillment_status
     ELSE DefaultSettings.fulfillment_status]

\* ------------------------------------------------- fulfillment predicates
FirstIndex(seq, Test(_)) ==
  IF \E k \in 1..Len(seq) : Test(seq[k])
  THEN CHOOSE k \in 1..Len(seq) : Test(seq[k]) /\ \A j \in 1..(k-1) : ~Test(seq[j])
  ELSE 0

\* shipping-update.ts: fulfillments.find(f => success | open | processing | null)
IsActionable(f) == f.status \in {"success", "open", "processing", "null"}

\* force-status.ts: fulfillments.find(f => success | open | processing)
IsActionableForce(f) == f.status \in {"success", "open", "processing"}

\* variant of IsOpenFO: only the status open counts
IsOpenFOStrict(fo) == fo.status = "open"

\* fo.status === 'open' || fo.status === 'in_progress'
IsOpenFO(fo) == fo.status \in {"open", "in_progress"}

RemoteHasTarget(fuls, fos) ==
  \/ \E k \in 1..Len(fuls) : IsActionable(fuls[k])
  \/ \E k \in 1..Len(fos) : fos[k].status \in {"open", "in_progress"}

\* ------------------------------------------------------ invocation state
NoSummary ==
  [tag |-> [status |-> "none", tagName |-> NoStr, error |-> ""],
   fulfillment |-> [status |-> "none", retries |-> 0, targetStatus |-> "", error |-> ""]]

\* const processingSummary = { tag: {status:'skipped'}, fulfillment: {status:'skipped', retries:0} }
InitialSummary ==
  [tag |-> [status |-> "skipped", tagName |-> NoStr, error |-> ""],
   fulfillment |-> [status |-> "skipped", retries |-> 0, targetStatus |-> "", error |-> ""]]

NoBody ==
  [id |-> 0, nestedId |-> 0,
   awb_no |-> "", data_awb_no |-> "", tracking_number |-> "", data_tracking_number |-> "",
   tracking_company |-> "", data_tracking_company |-> "",
   tracking_url |-> "", data_tracking_url |-> "", email |-> ""]
NoReq == [orderId |-> "", status |-> "", trackingNumber |-> "", trackingCompany |-> ""]
NoParams == [fulfillment_order_id |-> 0, number |-> "", company |-> "", url |-> "",
             notify_customer |-> FALSE, status |-> ""]
NoResponse == [code |-> 0, message |-> "", flowLog |-> FALSE]
\* req.body of POST /api/settings: the keys it carries and their values
NoForm == [given |-> {}, val |-> DefaultSettings, test_email |-> ""]

Idle ==
  [kind |-> "none", pc |-> "idle", body |-> NoBody, req |-> NoReq,
   form |-> NoForm, pos |-> 0,
   settings |-> DefaultSettings, orderId |-> 0,
   order |-> [tags |-> NoStr, fulfillments |-> <<>>], cur |-> <<>>,
   attempt |-> 0, desiredStatus |-> "", fulfillmentUpdated |-> FALSE,
   target |-> 0, newF |-> [id |-> 0, status |-> ""], params |-> NoParams,
   newTags |-> NoStr, summary |-> NoSummary,
   flowLog |-> <<>>, calls |-> <<>>, scanned |-> <<>>, waits |-> 0, now |-> 0,
   pendingLog |-> [status |-> "", message |-> ""], respAfter |-> 0,
   response |-> NoResponse]

\* the invocation's reading of the clock (new Date()), in ticks: the clock
\* does not run backwards, it stands still during synchronous code and has
\* moved on by d ticks when an await returns
Tick(s, d) == [s EXCEPT !.now = @ + d]

\* variant of Log: the entry is put in front of the trace
LogInFront(s, step) ==
  [s EXCEPT !.flowLog = <<[step |-> step, n |-> s.attempt, t |-> s.now]>> \o @]

\* addLog(step, detail): the entry carries its timestamp and the attempt it
\* was appended in
Log(s, step) ==
  [s EXCEPT !.flowLog = Append(@, [step |-> step, n |-> s.attempt, t |-> s.now])]

\* a remote call issued by the invocation (history of the calls, in order),
\* awaited until it returned or threw
Call(s, op, arg, ok) ==
  Tick([s EXCEPT !.calls = Append(@, [op |-> op, arg |-> arg, ok |-> ok, n |-> s.attempt])],
       1)

\* variant of Respond: no response is sent and the handler does not return
RespondNever(s, code, message, withLog) == [s EXCEPT !.pc = "hung"]

\* res.status(code).json({message}) ; return
Respond(s, code, message, withLog) ==
  [s EXCEPT !.pc = "done",
            !.response = [code |-> code, message |-> message, flowLog |-> withLog]]

\* await logEvent(status, message, body) followed by the response `code`
ThenLogEvent(s, status, message, code) ==
  [s EXCEPT !.pc = "logEvent",
            !.pendingLog = [status |-> status, message |-> message],
            !.respAfter = code]

\* ---------------------------------------------------------------------
\* Webhook: synchronous code between two awaits, as operators on the
\* invocation record.
\* ---------------------------------------------------------------------

\* variant of Exhausted: the exhausted loop is treated as an operation error
ExhaustedAsError(s) ==
  ThenLogEvent(
    [Log(s, "Failed to update fulfillment after 3 attempts")
       EXCEPT !.summary.fulfillment.status = "failed",
              !.summary.fulfillment.error = "No open fulfillment found after 3 retries"],
    "ERROR", "Fulfillment update skipped - no open fulfillment found after retries", 500)

\* lines 299-304: the loop ended without an update
Exhausted(s) ==
  ThenLogEvent(
    [Log(s, "Failed to update fulfillment after 3 attempts")
       EXCEPT !.summary.fulfillment.status = "failed",
              !.summary.fulfillment.error = "No open fulfillment found after 3 retries"],
    "WARNING", "Fulfillment update skipped - no open fulfillment found after retries", 200)

\* variant of EndAttempt: the exhausted run reports attempt - 1 retries
EndAttemptOffByOne(s) ==
  IF s.attempt < MaxAttempts
  THEN [Log(s, "Waiting 3s before retry...") EXCEPT !.pc = "wait"]
  ELSE Exhausted([s EXCEPT !.summary.fulfillment.retries = s.attempt - 1])

\* variant of EndAttempt: the wait follows the final attempt as well
EndAttemptWaitsAfterLast(s) ==
  [Log(s, "Waiting 3s before retry...") EXCEPT !.pc = "wait"]

\* lines 289-297: end of an attempt that did not update the fulfillment
EndAttempt(s) ==
  IF s.attempt < MaxAttempts
  THEN [Log(s, "Waiting 3s before retry...") EXCEPT !.pc = "wait"]
  ELSE Exhausted([s EXCEPT !.summary.fulfillment.retries = MaxAttempts])

\* lines 176-213: scan of the attempt's fulfillment list (Strategy A lookup)
Scan(s) ==
  LET fuls == s.cur
      s1 == Log([s EXCEPT !.scanned = Append(@, fuls)], "Scanning fulfillments")
      k == FirstIndex(fuls, IsActionable)
  IN IF k > 0
     THEN [Log(Log(s1, "Found target legacy fulfillment"), "Creating fulfillment event")
             EXCEPT !.target = fuls[k].id, !.pc = "eventA"]
     ELSE [Log(s1, "No legacy fulfillment found. Checking Fulfillment Orders (Strategy B)...")
             EXCEPT !.pc = "listFO"]

\* lines 162-174: head of loop iteration n
BeginAttempt(s, n) ==
  LET s1 == Log([s EXCEPT !.attempt = n, !.cur = s.order.fulfillments],
                "Fulfillment Update Attempt")
  IN IF n > 1
     THEN [Log(s1, "Re-fetching order from Shopify...") EXCEPT !.pc = "refetch"]
     ELSE Scan(s1)

\* lines 155-160 and 306-310: the fulfillment section of the handler
EnterFulfillment(s) ==
  IF Truthy(s.settings.fulfillment_update_enabled) /\ s.settings.fulfillment_status # ""
  THEN BeginAttempt(
         [s EXCEPT !.desiredStatus = s.settings.fulfillment_status,
                   !.fulfillmentUpdated = FALSE,
                   !.summary.fulfillment.targetStatus = s.settings.fulfillment_status], 1)
  ELSE ThenLogEvent(
         [Log(s, "Fulfillment update skipped") EXCEPT !.summary.fulfillment.status = "skipped"],
         "SUCCESS", "Processed Order", 200)

\* variant of TagUpdateFailed: the tag error reaches the outer catch
TagUpdateFailedAborts(s) ==
  ThenLogEvent(
    Log([s EXCEPT !.summary.tag.status = "failed", !.summary.tag.error = "tagError"],
        "Operation Error"),
    "ERROR", "Operation failed", 500)

\* lines 140-144: catch (tagError)
TagUpdateFailed(s) ==
  EnterFulfillment(
    Log([s EXCEPT !.summary.tag.status = "failed", !.summary.tag.error = "tagError"],
        "Error adding tag"))

\* variant of TagUpdateSucceeded: the tag outcome is not recorded
TagUpdateSucceededUnrecorded(s) == EnterFulfillment(Log(s, "Tag added"))

\* lines 137-139: the tag update returned
TagUpdateSucceeded(s) ==
  EnterFulfillment([Log(s, "Tag added") EXCEPT !.summary.tag.status = "success"])

\* variant of Tagging: the update is issued although the tag is on the order
TaggingAlwaysUpdates(s) ==
  IF Truthy(s.settings.tagging_enabled) /\ s.settings.tag_name # NoStr
  THEN [s EXCEPT !.summary.tag.tagName = s.settings.tag_name,
                 !.newTags = NewTags(s.order.tags, s.settings.tag_name),
                 !.pc = "tagUpdate"]
  ELSE EnterFulfillment(
         [Log(s, "Tagging skipped") EXCEPT !.summary.tag.status = "skipped"])

\* lines 127-152: tagging logic up to the update call
Tagging(s) ==
  IF Truthy(s.settings.tagging_enabled) /\ s.settings.tag_name # NoStr
  THEN LET tag == s.settings.tag_name
           s1 == [s EXCEPT !.summary.tag.tagName = tag]
       IN IF ~Includes(CurrentTags(s.order.tags), tag)
          THEN [s1 EXCEPT !.newTags = NewTags(s.order.tags, tag), !.pc = "tagUpdate"]
          ELSE EnterFulfillment(
                 [Log(s1, "Tag already exists") EXCEPT !.summary.tag.status = "exists"])
  ELSE EnterFulfillment(
         [Log(s, "Tagging skipped") EXCEPT !.summary.tag.status = "skipped"])

\* variant of OpError: the failure is logged but the tagging step still runs
OpErrorContinues(s) == Tagging(Log(s, "Operation Error"))

\* lines 312-316: catch (opError)
OpError(s) ==
  ThenLogEvent(Log(s, "Operation Error"), "ERROR", "Operation failed", 500)

\* variant of ResolveOrder: the missing identifier is not checked
ResolveOrderUnchecked(s) ==
  LET s1 == Log([s EXCEPT !.orderId = s.body.id], "Initial Order ID check")
      s2 == IF s1.orderId = 0 /\ s.body.nestedId # 0
            THEN Log([s1 EXCEPT !.orderId = s.body.nestedId],
                     "Found Order ID in nested payload")
            ELSE s1
  IN [Log(Log(s2, "Processing Order"), "Fetching Order from Shopify")
        EXCEPT !.pc = "fetchOrder"]

\* variant of ResolveOrder: the nested identifier is tried first
ResolveOrderNestedFirst(s) ==
  LET s1 == Log([s EXCEPT !.orderId = s.body.nestedId], "Initial Order ID check")
      s2 == IF s1.orderId = 0 /\ s.body.id # 0
            THEN Log([s1 EXCEPT !.orderId = s.body.id],
                     "Found Order ID in nested payload")
            ELSE s1
  IN IF s2.orderId = 0
     THEN ThenLogEvent(Log(s2, "Error: No Order ID found"), "ERROR", "No Order ID found", 400)
     ELSE [Log(Log(s2, "Processing Order"), "Fetching Order from Shopify")
             EXCEPT !.pc = "fetchOrder"]

\* lines 104-122: order identity resolution
ResolveOrder(s) ==
  LET s1 == Log([s EXCEPT !.orderId = s.body.id], "Initial Order ID check")
      s2 == IF s1.orderId = 0 /\ s.body.nestedId # 0
            THEN Log([s1 EXCEPT !.orderId = s.body.nestedId],
                     "Found Order ID in nested payload")
            ELSE s1
  IN IF s2.orderId = 0
     THEN ThenLogEvent(Log(s2, "Error: No Order ID found"), "ERROR", "No Order ID found", 400)
     ELSE [Log(Log(s2, "Processing Order"), "Fetching Order from Shopify")
             EXCEPT !.pc = "fetchOrder"]

\* variant of PolicyGate: the system_enabled flag is not consulted
PolicyGateOpen(s) == ResolveOrder([s EXCEPT !.summary = InitialSummary])

\* lines 58-68: the policy gate
PolicyGate(s) ==
  IF ~Truthy(s.settings.system_enabled)
  THEN Respond(Log(s, "System Disabled"), 200, "System disabled", FALSE)
  ELSE ResolveOrder([s EXCEPT !.summary = InitialSummary])

\* lines 242-244: a || b || c || d || fallback
FirstTruthy(a, b, c, d, fallback) ==
  IF a # "" THEN a ELSE IF b # "" THEN b ELSE IF c # "" THEN c ELSE IF d # "" THEN d
  ELSE fallback

\* variant of FulfillmentParams: tracking info whatever the target status
FulfillmentParamsAlwaysTracked(body, desiredStatus, foId) ==
  [fulfillment_order_id |-> foId,
   number |-> FirstTruthy(body.awb_no, body.data_awb_no, body.tracking_number,
                          body.data_tracking_number, "PENDING"),
   company |-> FirstTruthy(body.tracking_company, body.data_tracking_company,
                           "", "", "Local Delivery"),
   url |-> FirstTruthy(body.tracking_url, body.data_tracking_url, "", "", ""),
   notify_customer |-> TRUE, status |-> ""]

\* lines 233-254: the fulfillment-creation request
FulfillmentParams(body, desiredStatus, foId) ==
  IF desiredStatus \in {"in_transit", "out_for_delivery"}
  THEN [fulfillment_order_id |-> foId,
        number |-> FirstTruthy(body.awb_no, body.data_awb_no, body.tracking_number,
                               body.data_tracking_number, "PENDING"),
        company |-> FirstTruthy(body.tracking_company, body.data_tracking_company,
                                "", "", "Local Delivery"),
        url |-> FirstTruthy(body.tracking_url, body.data_tracking_url, "", "", ""),
        notify_customer |-> TRUE, status |-> ""]
  ELSE [NoParams EXCEPT !.fulfillment_order_id = foId]

\* variant of EventAFailed: the failure falls into Strategy B of the same attempt
EventAFailedThenB(s) ==
  [Log(s, "Error updating fulfillment event") EXCEPT !.pc = "listFO"]

\* lines 208-210 then 289: the Strategy A status call threw
EventAFailed(s) == EndAttempt(Log(s, "Error updating fulfillment event"))

\* variant of EventASucceeded: retries counts the successful attempt too
EventASucceededCountsAttempt(s) ==
  ThenLogEvent(
    [Log(s, "Fulfillment event created successfully")
       EXCEPT !.summary.fulfillment.status = "success",
              !.summary.fulfillment.retries = s.attempt],
    "SUCCESS", "Processed Order", 200)

\* lines 200-207: the Strategy A status call returned
EventASucceeded(s) ==
  ThenLogEvent(
    [Log(s, "Fulfillment event created successfully")
       EXCEPT !.summary.fulfillment.status = "success",
              !.summary.fulfillment.retries = s.attempt - 1],
    "SUCCESS", "Processed Order", 200)

\* variant of StrategyBFinish: a failed status event ends the attempt as failed
StrategyBFinishRetries(s, eventOk) ==
  IF eventOk
  THEN ThenLogEvent(
         [Log(s, "Applied status event")
            EXCEPT !.summary.fulfillment.status = "success",
                   !.summary.fulfillment.retries = s.attempt - 1],
         "SUCCESS", "Processed Order (via FulfillmentOrder)", 200)
  ELSE EndAttempt(Log(s, "Error adding status event"))

\* variant of StrategyBFinish: the successful attempt is counted as a retry
StrategyBFinishCountsAttempt(s, eventOk) ==
  ThenLogEvent(
    [(IF eventOk THEN Log(s, "Applied status event") ELSE Log(s, "Error adding status event"))
       EXCEPT !.summary.fulfillment.status = "success",
              !.summary.fulfillment.retries = s.attempt],
    "SUCCESS", "Processed Order (via FulfillmentOrder)", 200)

\* lines 262-277: after the Strategy B status call, whether it threw or not
StrategyBFinish(s, eventOk) ==
  ThenLogEvent(
    [(IF eventOk THEN Log(s, "Applied status event") ELSE Log(s, "Error adding status event"))
       EXCEPT !.summary.fulfillment.status = "success",
              !.summary.fulfillment.retries = s.attempt - 1],
    "SUCCESS", "Processed Order (via FulfillmentOrder)", 200)

\* variant of StrategyBFailed: the failure reaches the catch of the operation
StrategyBFailedEscapes(s) == OpError(s)

\* lines 283-286 then 289: catch (foError)
StrategyBFailed(s) == EndAttempt(Log(s, "Failed to check Fulfillment Orders"))

\* lines 219-254: the fulfillment-order list returned
FulfillmentOrdersListed(s, fos) ==
  LET k == FirstIndex(fos, IsOpenFO)
  IN IF k > 0
     THEN LET s1 == Log(Log(s, "Found open Fulfillment Order"),
                        "Creating Fulfillment from Order (V2)")
              p == FulfillmentParams(s.body, s.desiredStatus, fos[k].id)
              s2 == IF p.notify_customer THEN Log(s1, "Extracted tracking info") ELSE s1
          IN [s2 EXCEPT !.params = p, !.pc = "createV2"]
     ELSE EndAttempt(Log(s, "No open Fulfillment Order found"))

\* ---------------------------------------------------------------------
\* Inputs and initial states
\* ---------------------------------------------------------------------
Ful(id, status) == [id |-> id, status |-> status]
FO(id, status) == [id |-> id, status |-> status]

Bodies ==
  {[NoBody EXCEPT !.id = 123, !.nestedId = 456],
   [NoBody EXCEPT !.nestedId = 789, !.data_awb_no = "AWB1", !.tracking_url = "u"],
   NoBody}

InitTagStrings == {NoStr, <<"b">>, <<"b", ",", " ", "a">>}

InitFulfillments ==
  {<<>>, <<Ful(1, "cancelled")>>, <<Ful(1, "cancelled"), Ful(2, "null")>>,
   <<Ful(1, "success")>>}

InitFulfillmentOrders ==
  {<<>>, <<FO(11, "closed"), FO(12, "in_progress"), FO(13, "open")>>}

Policy(sys, tagOn, tagName, fulOn, target) ==
  [system_enabled |-> sys, tagging_enabled |-> tagOn, tag_name |-> tagName,
   fulfillment_update_enabled |-> fulOn, fulfillment_status |-> target]

Stored(present, val) == [present |-> present, val |-> val]

InitSettings ==
  {Stored(SettingKeys, Policy("true", "true", <<"a">>, "true", "in_transit")),
   Stored(SettingKeys, Policy("true", "false", <<"a">>, "true", "delivered")),
   Stored(SettingKeys, Policy("true", "true", <<"a">>, "false", "in_transit")),
   Stored(SettingKeys, Policy("false", "true", <<"a">>, "true", "in_transit")),
   Stored({"system_enabled"}, DefaultSettings)}

Init ==
  /\ inv = [i \in Inv |-> Idle]
  /\ remoteTags \in InitTagStrings
  /\ remoteFuls \in InitFulfillments
  /\ remoteFOs \in InitFulfillmentOrders
  /\ settingsDB \in InitSettings
  /\ logs = <<>>
  /\ envSteps = 0
  /\ appeared = RemoteHasTarget(remoteFuls, remoteFOs)

\* ---------------------------------------------------------------------
\* Webhook actions: one per await of src/pages/api/webhooks/shipping-update.ts
\* ---------------------------------------------------------------------
Running(i) == inv[i].pc \notin {"idle", "done"}

\* handler entry, lines 13-33; invocations of this specification run one
\* after the other
Start(i, body) ==
  /\ inv[i].pc = "idle"
  /\ \A j \in Inv : j < i => inv[j].pc = "done"
  /\ inv' = [inv EXCEPT ![i] =
               Log([Idle EXCEPT !.kind = "webhook", !.body = body, !.pc = "loadSettings"],
                   "Webhook received")]
  /\ UNCHANGED <<remoteTags, remoteFuls, remoteFOs, settingsDB, logs, envSteps, appeared>>

\* lines 44-62: await sql`SELECT key, value FROM settings`
LoadSettings(i) ==
  /\ inv[i].pc = "loadSettings"
  /\ \E ok \in BOOLEAN :
       inv' = [inv EXCEPT ![i] =
                 IF ok
                 THEN PolicyGate(Log([Tick(@, 1) EXCEPT !.settings = LoadedSettings(settingsDB)],
                                     "Settings Loaded"))
                 ELSE PolicyGate(Log(Tick(@, 1), "Error loading settings"))]
  /\ UNCHANGED <<remoteTags, remoteFuls, remoteFOs, settingsDB, logs, envSteps, appeared>>

\* line 123: await shopify.order.get(orderId, ...)
FetchOrder(i) ==
  /\ inv[i].pc = "fetchOrder"
  /\ \E ok \in BOOLEAN :
       inv' = [inv EXCEPT ![i] =
                 IF ok
                 THEN Tagging(Log([Call(@, "order.get", @.orderId, TRUE)
                                     EXCEPT !.order = [tags |-> remoteTags,
                                                       fulfillments |-> remoteFuls]],
                                  "Order Fetched"))
                 ELSE OpError(Call(@, "order.get", @.orderId, FALSE))]
  /\ UNCHANGED <<remoteTags, remoteFuls, remoteFOs, settingsDB, logs, envSteps, appeared>>

\* line 136: await shopify.order.update(orderId, { tags: newTags })
TagUpdate(i) ==
  /\ inv[i].pc = "tagUpdate"
  /\ \E ok \in BOOLEAN :
       /\ inv' = [inv EXCEPT ![i] =
                    IF ok THEN TagUpdateSucceeded(Call(@, "order.update", @.orderId, TRUE))
                    ELSE TagUpdateFailed(Call(@, "order.update", @.orderId, FALSE))]
       /\ remoteTags' = IF ok THEN inv[i].newTags ELSE remoteTags
  /\ UNCHANGED <<remoteFuls, remoteFOs, settingsDB, logs, envSteps, appeared>>

\* variant of Refetch: the list the fetch returns is dropped
RefetchKeepsSnapshot(i) ==
  /\ inv[i].pc = "refetch"
  /\ \E ok \in BOOLEAN :
       inv' = [inv EXCEPT ![i] =
                 IF ok
                 THEN Scan(Call(@, "order.get", @.orderId, TRUE))
                 ELSE Scan(Log(Call(@, "order.get", @.orderId, FALSE),
                               "Error re-fetching order"))]
  /\ UNCHANGED <<remoteTags, remoteFuls, remoteFOs, settingsDB, logs, envSteps, appeared>>

\* line 170: await shopify.order.get(orderId, ...) of attempts 2 and 3
Refetch(i) ==
  /\ inv[i].pc = "refetch"
  /\ \E ok \in BOOLEAN :
       inv' = [inv EXCEPT ![i] =
                 IF ok
                 THEN Scan([Call(@, "order.get", @.orderId, TRUE) EXCEPT !.cur = remoteFuls])
                 ELSE Scan(Log(Call(@, "order.get", @.orderId, FALSE),
                               "Error re-fetching order"))]
  /\ UNCHANGED <<remoteTags, remoteFuls, remoteFOs, settingsDB, logs, envSteps, appeared>>

\* line 199: await shopify.fulfillmentEvent.create(orderId, openFulfillment.id, ...)
EventA(i) ==
  /\ inv[i].pc = "eventA"
  /\ \E ok \in BOOLEAN :
       inv' = [inv EXCEPT ![i] =
                 IF ok
                 THEN EventASucceeded(Call(@, "fulfillmentEvent.create", @.target, TRUE))
                 ELSE EventAFailed(Call(@, "fulfillmentEvent.create", @.target, FALSE))]
  /\ UNCHANGED <<remoteTags, remoteFuls, remoteFOs, settingsDB, logs, envSteps, appeared>>

\* line 216: await shopify.order.fulfillmentOrders(orderId)
ListFO(i) ==
  /\ inv[i].pc = "listFO"
  /\ \E ok \in BOOLEAN :
       inv' = [inv EXCEPT ![i] =
                 IF ok
                 THEN FulfillmentOrdersListed(
                        Call(@, "order.fulfillmentOrders", @.orderId, TRUE), remoteFOs)
                 ELSE StrategyBFailed(Call(@, "order.fulfillmentOrders", @.orderId, FALSE))]
  /\ UNCHANGED <<remoteTags, remoteFuls, remoteFOs, settingsDB, logs, envSteps, appeared>>

\* the remote system's effect of a fulfillment creation: a new fulfillment
\* record on the order, and the fulfillment order is closed
NextFulfillmentId(fuls) == 100 + Len(fuls)
CloseFO(fos, id) ==
  [k \in 1..Len(fos) |-> IF fos[k].id = id THEN FO(id, "closed") ELSE fos[k]]

\* line 257: await shopify.fulfillment.createV2(fulfillmentParams)
CreateV2(i) ==
  /\ inv[i].pc = "createV2"
  /\ \/ \E st \in {"success", "open"} :
          LET f == Ful(NextFulfillmentId(remoteFuls), st)
          IN /\ inv' = [inv EXCEPT ![i] =
                          [Log(Call(@, "fulfillment.createV2",
                                    @.params.fulfillment_order_id, TRUE),
                               "Fulfillment created successfully (V2)")
                             EXCEPT !.newF = f, !.pc = "eventB"]]
             /\ remoteFuls' = Append(remoteFuls, f)
             /\ remoteFOs' = CloseFO(remoteFOs, inv[i].params.fulfillment_order_id)
             /\ appeared' = TRUE
     \/ /\ inv' = [inv EXCEPT ![i] =
                      StrategyBFailed(Call(@, "fulfillment.createV2",
                                           @.params.fulfillment_order_id, FALSE))]
        /\ UNCHANGED <<remoteFuls, remoteFOs, appeared>>
  /\ UNCHANGED <<remoteTags, settingsDB, logs, envSteps>>

\* line 265: await shopify.fulfillmentEvent.create(orderId, newFulfillment.id, ...)
EventB(i) ==
  /\ inv[i].pc = "eventB"
  /\ \E ok \in BOOLEAN :
       inv' = [inv EXCEPT ![i] =
                 StrategyBFinish(Call(@, "fulfillmentEvent.create", @.newF.id, ok), ok)]
  /\ UNCHANGED <<remoteTags, remoteFuls, remoteFOs, settingsDB, logs, envSteps, appeared>>

\* line 292: await new Promise(resolve => setTimeout(resolve, 3000)); attempt++
Wait(i) ==
  /\ inv[i].pc = "wait"
  /\ inv' = [inv EXCEPT ![i] =
               BeginAttempt(Tick([@ EXCEPT !.waits = @ + 1], 3), @.attempt + 1)]
  /\ UNCHANGED <<remoteTags, remoteFuls, remoteFOs, settingsDB, logs, envSteps, appeared>>

\* the response that follows a logEvent call
ResponseMessage(code) ==
  IF code = 400 THEN "No Order ID found"
  ELSE IF code = 500 THEN "Error processing order" ELSE "Success"

\* variant of LogRow: trace and summary are taken from one place shared by
\* all invocations
LogRowShared(i) ==
  [status |-> inv[i].pendingLog.status, message |-> inv[i].pendingLog.message,
   flow_log |-> inv[1].flowLog, summary |-> inv[1].summary,
   manual |-> FALSE, badge |-> "", by |-> i]

\* the row logEvent inserts for invocation i
LogRow(i) ==
  [status |-> inv[i].pendingLog.status, message |-> inv[i].pendingLog.message,
   flow_log |-> inv[i].flowLog, summary |-> inv[i].summary,
   manual |-> FALSE, badge |-> "", by |-> i]

\* variant of LogEvent: a trace entry is added after the row was written
LogEventThenTrace(i) ==
  /\ inv[i].pc = "logEvent"
  /\ \E ok \in BOOLEAN :
       logs' = IF ok THEN Append(logs, LogRow(i)) ELSE logs
  /\ inv' = [inv EXCEPT ![i] =
               Respond(Log(@, "Log record written"),
                       @.respAfter, ResponseMessage(@.respAfter), FALSE)]
  /\ UNCHANGED <<remoteTags, remoteFuls, remoteFOs, settingsDB, envSteps, appeared>>

\* variant of LogEvent: a failing insert reaches the handler's outer catch
LogEventFailureAborts(i) ==
  /\ inv[i].pc = "logEvent"
  /\ \E ok \in BOOLEAN :
       /\ logs' = IF ok THEN Append(logs, LogRow(i)) ELSE logs
       /\ inv' = [inv EXCEPT ![i] =
                    IF ok
                    THEN Respond([@ EXCEPT !.fulfillmentUpdated =
                                             (@ \/ inv[i].summary.fulfillment.status = "success")],
                                 @.respAfter, ResponseMessage(@.respAfter), FALSE)
                    ELSE Respond(@, 500, "Internal Server Error", FALSE)]
  /\ UNCHANGED <<remoteTags, remoteFuls, remoteFOs, settingsDB, envSteps, appeared>>

\* lines 71-102: await logEvent(...); a failing insert is caught and dropped
LogEvent(i) ==
  /\ inv[i].pc = "logEvent"
  /\ \E ok \in BOOLEAN :
       logs' = IF ok THEN Append(logs, LogRow(i)) ELSE logs
  /\ inv' = [inv EXCEPT ![i] =
               Respond([@ EXCEPT !.fulfillmentUpdated =
                                   (@ \/ inv[i].summary.fulfillment.status = "success")],
                       @.respAfter, ResponseMessage(@.respAfter), FALSE)]
  /\ UNCHANGED <<remoteTags, remoteFuls, remoteFOs, settingsDB, envSteps, appeared>>

\* ---------------------------------------------------------------------
\* The remote system changes under the invocation (other writers,
\* eventual consistency): a fulfillment or a fulfillment order shows up,
\* or an open fulfillment order is closed.
\* ---------------------------------------------------------------------
EnvFulfillments(fuls) ==
  {Append(fuls, Ful(NextFulfillmentId(fuls), "open")),
   Append(fuls, Ful(NextFulfillmentId(fuls), "pending"))}

Env ==
  /\ envSteps < MaxEnvSteps
  /\ \E i \in Inv : Running(i)
  /\ envSteps' = envSteps + 1
  /\ \/ /\ remoteFuls' \in EnvFulfillments(remoteFuls)
        /\ UNCHANGED remoteFOs
     \/ /\ remoteFOs' = Append(remoteFOs, FO(20 + Len(remoteFOs), "open"))
        /\ UNCHANGED remoteFuls
  /\ appeared' = (appeared \/ RemoteHasTarget(remoteFuls', remoteFOs'))
  /\ UNCHANGED <<inv, remoteTags, settingsDB, logs>>

Step(i) ==
  \/ LoadSettings(i)
  \/ FetchOrder(i)
  \/ TagUpdate(i)
  \/ Refetch(i)
  \/ EventA(i)
  \/ ListFO(i)
  \/ CreateV2(i)
  \/ EventB(i)
  \/ Wait(i)
  \/ LogEvent(i)

\* one webhook invocation against a changing remote order
Next ==
  \/ \E body \in Bodies : Start(1, body)
  \/ Step(1)
  \/ Env

Spec == Init /\ [][Next]_vars

\* one webhook invocation against a remote order that no one else changes
NextQuiet ==
  \/ \E body \in Bodies : Start(1, body)
  \/ Step(1)

SpecQuiet == Init /\ [][NextQuiet]_vars

\* one webhook invocation whose pending await (remote call, store access or
\* wait) always returns or fails in the end
SpecLive == Init /\ [][NextQuiet]_vars /\ WF_vars(Step(1))

\* one webhook invocation with the fulfillment update switched on, against
\* a changing remote order
InitTrace ==
  /\ Init
  /\ remoteTags \in {NoStr, <<"b", ",", " ", "a">>}
  /\ settingsDB \in {Stored(SettingKeys, Policy("true", "true", <<"a">>, "true", "in_transit")),
                     Stored(SettingKeys, Policy("true", "false", <<"a">>, "true", "delivered"))}

NextTrace ==
  \/ Start(1, [NoBody EXCEPT !.id = 123])
  \/ Step(1)
  \/ Env

SpecTrace == InitTrace /\ [][NextTrace]_vars

\* ---------------------------------------------------------------------
\* Manual override: src/pages/api/force-status.ts
\* ---------------------------------------------------------------------
BlueBadge == {"ready_for_delivery", "out_for_delivery", "in_transit"}
NeedsOpen == {"in_transit", "out_for_delivery"}

Requests ==
  {[orderId |-> o, status |-> st, trackingNumber |-> tn, trackingCompany |-> ""] :
     o \in {"", "1001", "#1001"},
     st \in {"", "in_transit", "out_for_delivery", "ready_for_delivery", "delivered"},
     tn \in {"", "TN1"}}

\* isNaN(Number(orderId))
IsNaNNumber(orderId) == orderId \notin {"1001"}

\* lines 173-176: catch (error) of the handler
ForceFatal(s) == Respond(Log(s, "FATAL ERROR"), 500, "error.message", TRUE)

\* lines 113-114: no existing fulfillment, go to the fulfillment orders
ForceStrategyB(s) ==
  [Log(s, "No active fulfillment found. Checking Fulfillment Orders...")
     EXCEPT !.pc = "forceListFO"]

\* lines 90-112: Strategy A of the override
ForceStrategyA(s) ==
  LET fuls == s.order.fulfillments
      k == FirstIndex(fuls, IsActionableForce)
  IN IF k > 0
     THEN LET s1 == [Log(s, "Updating existing legacy fulfillment")
                       EXCEPT !.target = fuls[k].id]
          IN IF fuls[k].status = "success" /\ s.desiredStatus \in NeedsOpen
             THEN [Log(s1, "Attempting to re-open fulfillment") EXCEPT !.pc = "forceReopen"]
             ELSE [Log(s1, "Creating fulfillment event") EXCEPT !.pc = "forceEventA"]
     ELSE ForceStrategyB(s)

\* lines 84-87: Strategy 0 found no open fulfillment order
ForceNoOpenFO(s) ==
  Respond(Log(s, "No open/in-progress fulfillment order found for this action"),
          400, "No OPEN fulfillment order found.", TRUE)

\* variant of ForceOrderFetched: no Strategy 0, every status goes to Strategy A
ForceOrderFetchedNoBadge(s, fuls) ==
  ForceStrategyA(Log([s EXCEPT !.order = [tags |-> NoStr, fulfillments |-> fuls],
                               !.orderId = 1001], "Order Fetched"))

\* lines 54-61: after the order was fetched
ForceOrderFetched(s, fuls) ==
  LET s1 == Log([s EXCEPT !.order = [tags |-> NoStr, fulfillments |-> fuls],
                          !.orderId = 1001], "Order Fetched")
  IN IF s.desiredStatus \in BlueBadge
     THEN [Log(s1, "Action: Mark as Ready/Out for Delivery requested")
             EXCEPT !.pc = "forceListFO0"]
     ELSE ForceStrategyA(s1)

\* lines 13-48: handler entry up to the order lookup
StartForce(i, req) ==
  /\ inv[i].pc = "idle"
  /\ \A j \in Inv : j < i => inv[j].pc = "done"
  /\ inv' = [inv EXCEPT ![i] =
               LET s == [Idle EXCEPT !.kind = "force", !.req = req,
                                     !.desiredStatus = req.status]
               IN IF req.orderId = "" \/ req.status = ""
                  THEN Respond(s, 400, "Missing orderId or status", FALSE)
                  ELSE IF IsNaNNumber(req.orderId)
                  THEN [Log(Log(s, "Manual Force Request Received"),
                            "OrderId is not numeric, searching by name")
                          EXCEPT !.pc = "forceList"]
                  ELSE [Log(s, "Manual Force Request Received") EXCEPT !.pc = "forceGet"]]
  /\ UNCHANGED <<remoteTags, remoteFuls, remoteFOs, settingsDB, logs, envSteps, appeared>>

\* line 40: await shopify.order.list({ name, status: 'any', limit: 1 })
ForceList(i) ==
  /\ inv[i].pc = "forceList"
  /\ \E ok \in BOOLEAN, found \in BOOLEAN :
       inv' = [inv EXCEPT ![i] =
                 IF ~ok
                 THEN Respond(Call(@, "order.list", 0, FALSE), 404, "Order not found", FALSE)
                 ELSE IF ~found
                 THEN Respond(Call(@, "order.list", 0, TRUE), 404,
                              "Order Name not found", FALSE)
                 ELSE ForceOrderFetched(Log(Call(@, "order.list", 0, TRUE),
                                            "Order found by name"), remoteFuls)]
  /\ UNCHANGED <<remoteTags, remoteFuls, remoteFOs, settingsDB, logs, envSteps, appeared>>

\* line 48: await shopify.order.get(orderId, ...)
ForceGet(i) ==
  /\ inv[i].pc = "forceGet"
  /\ \E ok \in BOOLEAN :
       inv' = [inv EXCEPT ![i] =
                 IF ok THEN ForceOrderFetched(Call(@, "order.get", 1001, TRUE), remoteFuls)
                 ELSE Respond(Call(@, "order.get", 1001, FALSE), 404,
                              "Order not found", FALSE)]
  /\ UNCHANGED <<remoteTags, remoteFuls, remoteFOs, settingsDB, logs, envSteps, appeared>>

\* lines 63-87: await shopify.order.fulfillmentOrders(orderNumericId) of Strategy 0
ForceListFO0(i) ==
  /\ inv[i].pc = "forceListFO0"
  /\ \E ok \in BOOLEAN :
       inv' = [inv EXCEPT ![i] =
                 LET s == Call(@, "order.fulfillmentOrders", @.orderId, ok)
                     k == FirstIndex(remoteFOs, IsOpenFO)
                 IN IF ~ok THEN ForceFatal(s)
                    ELSE IF k > 0
                    THEN [Log(s, "Found Fulfillment Order to mark")
                            EXCEPT !.target = remoteFOs[k].id, !.pc = "forceMark"]
                    ELSE ForceNoOpenFO(s)]
  /\ UNCHANGED <<remoteTags, remoteFuls, remoteFOs, settingsDB, logs, envSteps, appeared>>

\* line 71: the endpoint of the mark action
MarkEndpoint(desiredStatus) ==
  IF desiredStatus = "out_for_delivery" THEN "mark_as_out_for_delivery"
  ELSE "mark_as_ready_for_delivery"

\* line 75: await shopify.request(url, 'POST')
ForceMark(i) ==
  /\ inv[i].pc = "forceMark"
  /\ \E ok \in BOOLEAN :
       inv' = [inv EXCEPT ![i] =
                 LET s == Call(@, MarkEndpoint(@.desiredStatus), @.target, ok)
                 IN IF ok THEN [Log(s, "Successfully marked (REST)") EXCEPT !.pc = "forceLog0"]
                    ELSE ForceFatal(s)]
  /\ UNCHANGED <<remoteTags, remoteFuls, remoteFOs, settingsDB, logs, envSteps, appeared>>

ManualSummary(s) ==
  [NoSummary EXCEPT !.fulfillment.status = "success",
                    !.fulfillment.targetStatus = s.desiredStatus]

\* lines 79-83 and 161-172: await sql`INSERT INTO webhook_logs ...`, then the response
ForceLog(i) ==
  /\ inv[i].pc \in {"forceLog0", "forceLogFinal"}
  /\ \E ok \in BOOLEAN :
       /\ logs' = IF ~ok THEN logs
                  ELSE Append(logs,
                         [status |-> "SUCCESS",
                          message |-> IF inv[i].pc = "forceLog0" THEN "Manually set"
                                      ELSE "Manually forced status",
                          flow_log |-> inv[i].flowLog,
                          summary |-> IF inv[i].pc = "forceLog0" THEN NoSummary
                                      ELSE ManualSummary(inv[i]),
                          manual |-> TRUE,
                          badge |-> IF inv[i].pc = "forceLog0" THEN "blue" ELSE "",
                          by |-> i])
       /\ inv' = [inv EXCEPT ![i] =
                    IF ~ok THEN ForceFatal(@)
                    ELSE IF @.pc = "forceLog0"
                    THEN Respond(@, 200, "Marked (Blue Badge)", TRUE)
                    ELSE Respond(@, 200, "Status updated successfully", TRUE)]
  /\ UNCHANGED <<remoteTags, remoteFuls, remoteFOs, settingsDB, envSteps, appeared>>

\* lines 98-111: the optional re-open call (its failure is caught), then
\* await shopify.fulfillmentEvent.create(orderNumericId, openFulfillment.id, ...)
ForceEventA(i) ==
  /\ inv[i].pc \in {"forceReopen", "forceEventA"}
  /\ \E ok \in BOOLEAN :
       inv' = [inv EXCEPT ![i] =
                 IF @.pc = "forceReopen"
                 THEN LET s == Call(@, "fulfillment.open", @.target, ok)
                      IN [Log(IF ok THEN Log(s, "Fulfillment re-opened")
                              ELSE Log(s, "Re-open failed (already open or not supported)"),
                              "Creating fulfillment event")
                            EXCEPT !.pc = "forceEventA"]
                 ELSE LET s == Call(@, "fulfillmentEvent.create", @.target, ok)
                      IN IF ok
                         THEN [Log(s, "Fulfillment event created successfully")
                                 EXCEPT !.pc = "forceLogFinal"]
                         ELSE ForceFatal(s)]
  /\ UNCHANGED <<remoteTags, remoteFuls, remoteFOs, settingsDB, logs, envSteps, appeared>>

\* lines 121-131: the creation request of the override
ForceParams(req, desiredStatus, foId) ==
  IF desiredStatus \in NeedsOpen
  THEN [fulfillment_order_id |-> foId,
        number |-> IF req.trackingNumber # "" THEN req.trackingNumber ELSE "MANUAL-FORCE",
        company |-> IF req.trackingCompany # "" THEN req.trackingCompany
                    ELSE "Local Delivery",
        url |-> "", notify_customer |-> FALSE, status |-> "open"]
  ELSE [NoParams EXCEPT !.fulfillment_order_id = foId]

\* lines 116-152: await shopify.order.fulfillmentOrders(orderNumericId) of Strategy B
ForceListFO(i) ==
  /\ inv[i].pc = "forceListFO"
  /\ \E ok \in BOOLEAN :
       inv' = [inv EXCEPT ![i] =
                 LET s == Call(@, "order.fulfillmentOrders", @.orderId, ok)
                     k == FirstIndex(remoteFOs, IsOpenFO)
                 IN IF ~ok THEN ForceFatal(s)
                    ELSE IF k > 0
                    THEN [Log(s, "Found open Fulfillment Order")
                            EXCEPT !.params = ForceParams(inv[i].req, inv[i].desiredStatus,
                                                          remoteFOs[k].id),
                                   !.pc = "forceCreateV2"]
                    ELSE Respond(Log(s, "No open fulfillment orders found. Cannot force status change."),
                                 400, "No open fulfillment orders found", FALSE)]
  /\ UNCHANGED <<remoteTags, remoteFuls, remoteFOs, settingsDB, logs, envSteps, appeared>>

\* variant of ForceCreateV2: the status event follows the creation at once
ForceCreateV2NoSettle(i) ==
  /\ inv[i].pc = "forceCreateV2"
  /\ \/ \E st \in {"success", "open"} :
          LET f == Ful(NextFulfillmentId(remoteFuls), st)
          IN /\ inv' = [inv EXCEPT ![i] =
                          [Log(Call(@, "fulfillment.createV2",
                                    @.params.fulfillment_order_id, TRUE),
                               "Fulfillment created (V2)")
                             EXCEPT !.newF = f, !.pc = "forceEventB"]]
             /\ remoteFuls' = Append(remoteFuls, f)
             /\ remoteFOs' = CloseFO(remoteFOs, inv[i].params.fulfillment_order_id)
             /\ appeared' = TRUE
     \/ /\ inv' = [inv EXCEPT ![i] =
                      ForceFatal(Call(@, "fulfillment.createV2",
                                      @.params.fulfillment_order_id, FALSE))]
        /\ UNCHANGED <<remoteFuls, remoteFOs, appeared>>
  /\ UNCHANGED <<remoteTags, settingsDB, logs, envSteps>>

\* line 134: await shopify.fulfillment.createV2(params)
ForceCreateV2(i) ==
  /\ inv[i].pc = "forceCreateV2"
  /\ \/ \E st \in {"success", "open"} :
          LET f == Ful(NextFulfillmentId(remoteFuls), st)
          IN /\ inv' = [inv EXCEPT ![i] =
                          [Log(Call(@, "fulfillment.createV2",
                                    @.params.fulfillment_order_id, TRUE),
                               "Fulfillment created (V2)")
                             EXCEPT !.newF = f,
                                    !.pc = IF st = "success"
                                              /\ inv[i].desiredStatus \in NeedsOpen
                                           THEN "forceOpenNew" ELSE "forceSettle"]]
             /\ remoteFuls' = Append(remoteFuls, f)
             /\ remoteFOs' = CloseFO(remoteFOs, inv[i].params.fulfillment_order_id)
             /\ appeared' = TRUE
     \/ /\ inv' = [inv EXCEPT ![i] =
                      ForceFatal(Call(@, "fulfillment.createV2",
                                      @.params.fulfillment_order_id, FALSE))]
        /\ UNCHANGED <<remoteFuls, remoteFOs, appeared>>
  /\ UNCHANGED <<remoteTags, settingsDB, logs, envSteps>>

\* lines 138-146: the optional explicit open of the new fulfillment (its
\* failure is dropped), then await new Promise(r => setTimeout(r, 3000))
ForceSettle(i) ==
  /\ inv[i].pc \in {"forceOpenNew", "forceSettle"}
  /\ \E ok \in BOOLEAN :
       inv' = [inv EXCEPT ![i] =
                 IF @.pc = "forceOpenNew"
                 THEN LET s == Call(@, "fulfillment.open", @.newF.id, ok)
                      IN [(IF ok THEN Log(s, "Fulfillment explicitly opened") ELSE s)
                            EXCEPT !.pc = "forceSettle"]
                 ELSE Tick([@ EXCEPT !.waits = @ + 1, !.pc = "forceEventB"], 3)]
  /\ UNCHANGED <<remoteTags, remoteFuls, remoteFOs, settingsDB, logs, envSteps, appeared>>

\* line 147: await shopify.fulfillmentEvent.create(orderNumericId, newF.id, ...)
ForceEventB(i) ==
  /\ inv[i].pc = "forceEventB"
  /\ \E ok \in BOOLEAN :
       inv' = [inv EXCEPT ![i] =
                 LET s == Call(@, "fulfillmentEvent.create", @.newF.id, ok)
                 IN IF ok THEN [Log(s, "Fulfillment event created") EXCEPT !.pc = "forceLogFinal"]
                    ELSE ForceFatal(s)]
  /\ UNCHANGED <<remoteTags, remoteFuls, remoteFOs, settingsDB, logs, envSteps, appeared>>

ForceStep(i) ==
  \/ ForceList(i)
  \/ ForceGet(i)
  \/ ForceListFO0(i)
  \/ ForceMark(i)
  \/ ForceLog(i)
  \/ ForceEventA(i)
  \/ ForceListFO(i)
  \/ ForceCreateV2(i)
  \/ ForceSettle(i)
  \/ ForceEventB(i)

InitForce ==
  /\ Init
  /\ remoteTags = NoStr
  /\ settingsDB = Stored({"system_enabled"}, DefaultSettings)

\* one manual override against a changing remote order
NextForce ==
  \/ \E req \in Requests : StartForce(1, req)
  \/ ForceStep(1)
  \/ Env

SpecForce == InitForce /\ [][NextForce]_vars

\* ---------------------------------------------------------------------
\* Two webhook invocations for the same order, one after the other, with
\* the fulfillment update switched off and no other writer: the tagging
\* step run twice.
\* ---------------------------------------------------------------------
TagNames == {<<"a">>, <<"b">>, <<" ", "a">>, <<"a", ",", "b">>, NoStr}

InitTag ==
  /\ inv = [i \in Inv |-> Idle]
  /\ remoteTags \in InitTagStrings \cup {<<"A">>}
  /\ remoteFuls = <<>>
  /\ remoteFOs = <<>>
  /\ settingsDB \in {Stored(SettingKeys, Policy("true", "true", name, "false", "in_transit")) :
                        name \in TagNames}
                     \cup {Stored(SettingKeys,
                                  Policy("true", "false", <<"a">>, "false", "in_transit"))}
  /\ logs = <<>>
  /\ envSteps = 0
  /\ appeared = FALSE

NextTag ==
  \/ \E i \in Inv : Start(i, [NoBody EXCEPT !.id = 123])
  \/ \E i \in Inv : LoadSettings(i)
  \/ \E i \in Inv : FetchOrder(i)
  \/ \E i \in Inv : TagUpdate(i)
  \/ \E i \in Inv : LogEvent(i)

SpecTag == InitTag /\ [][NextTag]_vars

\* ---------------------------------------------------------------------
\* Settings write path: POST of src/pages/api/settings.ts, followed by a
\* webhook invocation that reads what was stored.
\* ---------------------------------------------------------------------
\* lines 70-76: const updates = [ ... ], in this order
PostKeys ==
  <<"system_enabled", "tagging_enabled", "tag_name", "fulfillment_update_enabled",
    "fulfillment_status">>

\* variant of NextGiven: every key of the list is written, supplied or not
NextGivenAll(form, pos) == IF pos < Len(PostKeys) THEN pos + 1 ELSE 0

\* lines 78-79: the next update whose value !== undefined, after position pos
NextGiven(form, pos) ==
  LET later == {k \in (pos + 1)..Len(PostKeys) : PostKeys[k] \in form.given}
  IN IF later = {} THEN 0 ELSE CHOOSE k \in later : \A j \in later : k <= j

\* lines 78-89: the loop up to its next await, or the response after it
PostAdvance(s, pos) ==
  IF NextGiven(s.form, pos) = 0
  THEN Respond(s, 200, "Settings updated", FALSE)
  ELSE [s EXCEPT !.pos = NextGiven(s.form, pos), !.pc = "upsert"]

\* lines 65-68: handler entry of the POST branch
PostSettings(i, form) ==
  /\ inv[i].pc = "idle"
  /\ \A j \in Inv : j < i => inv[j].pc = "done"
  /\ inv' = [inv EXCEPT ![i] =
               PostAdvance([Idle EXCEPT !.kind = "settings", !.form = form], 0)]
  /\ UNCHANGED <<remoteTags, remoteFuls, remoteFOs, settingsDB, logs, envSteps, appeared>>

\* lines 80-85: await sql`INSERT INTO settings ... ON CONFLICT (key) DO UPDATE ...`
Upsert(i) ==
  /\ inv[i].pc = "upsert"
  /\ LET key == PostKeys[inv[i].pos]
     IN \/ /\ settingsDB' = [present |-> settingsDB.present \cup {key},
                              val |-> [settingsDB.val EXCEPT ![key] = inv[i].form.val[key]]]
           /\ inv' = [inv EXCEPT ![i] = PostAdvance(@, @.pos)]
        \/ /\ inv' = [inv EXCEPT ![i] = Respond(@, 500, "error.message", FALSE)]
           /\ UNCHANGED settingsDB
  /\ UNCHANGED <<remoteTags, remoteFuls, remoteFOs, logs, envSteps, appeared>>

Form(given, val, email) == [given |-> given, val |-> val, test_email |-> email]

\* logs.tsx posts the whole form, test_email included
Forms ==
  {Form(SettingKeys \cup {"test_email"},
        Policy("true", "true", <<"a">>, "true", "in_transit"), "t@x"),
   Form({"tagging_enabled", "test_email"},
        Policy("true", "true", <<"a">>, "false", "in_transit"), "t@x"),
   Form(SettingKeys \cup {"test_email"},
        Policy("true", "true", <<"a">>, "false", "in_transit"), ""),
   Form({}, DefaultSettings, "")}

EmailBodies ==
  {[NoBody EXCEPT !.id = 123, !.email = "t@x"],
   [NoBody EXCEPT !.id = 123, !.email = "o@x"]}

InitPost ==
  /\ inv = [i \in Inv |-> Idle]
  /\ remoteTags = NoStr
  /\ remoteFuls \in {<<>>, <<Ful(1, "success")>>}
  /\ remoteFOs \in InitFulfillmentOrders
  /\ settingsDB \in {Stored({}, DefaultSettings),
                     Stored(SettingKeys, Policy("true", "false", <<"b">>, "false", "delivered")),
                     Stored(SettingKeys,
                            Policy("\"false\"", "\"false\"", <<"b">>, "\"false\"", "delivered"))}
  /\ logs = <<>>
  /\ envSteps = 0
  /\ appeared = RemoteHasTarget(remoteFuls, remoteFOs)

\* one settings POST, then one webhook invocation
NextPost ==
  \/ \E form \in Forms : PostSettings(1, form)
  \/ Upsert(1)
  \/ \E body \in EmailBodies : Start(2, body)
  \/ Step(2)

SpecPost == InitPost /\ [][NextPost]_vars

\* ---------------------------------------------------------------------
\* Two webhook deliveries for the same order handled at the same time, with
\* another writer on the remote order's tags.
\* ---------------------------------------------------------------------
\* handler entry, lines 13-33, of a delivery that does not wait for the
\* other one
StartConcurrent(i, body) ==
  /\ inv[i].pc = "idle"
  /\ inv' = [inv EXCEPT ![i] =
               Log([Idle EXCEPT !.kind = "webhook", !.body = body, !.pc = "loadSettings"],
                   "Webhook received")]
  /\ UNCHANGED <<remoteTags, remoteFuls, remoteFOs, settingsDB, logs, envSteps, appeared>>

\* the tag another writer puts on the order
OtherTag == <<"c">>

\* another writer adds its tag to the tags the remote order has at that moment
EnvTag ==
  /\ envSteps < MaxEnvSteps
  /\ \E i \in Inv : Running(i)
  /\ ~Includes(CurrentTags(remoteTags), OtherTag)
  /\ remoteTags' = NewTags(remoteTags, OtherTag)
  /\ envSteps' = envSteps + 1
  /\ UNCHANGED <<inv, remoteFuls, remoteFOs, settingsDB, logs, appeared>>

InitPair ==
  /\ inv = [i \in Inv |-> Idle]
  /\ remoteTags \in {NoStr, <<"b">>}
  /\ remoteFuls = <<>>
  /\ remoteFOs = <<>>
  /\ settingsDB \in {Stored(SettingKeys, Policy("true", "true", name, "false", "in_transit")) :
                        name \in {<<"a">>, <<" ", "a">>}}
  /\ logs = <<>>
  /\ envSteps = 0
  /\ appeared = FALSE

NextPair ==
  \/ \E i \in 1..2 : StartConcurrent(i, [NoBody EXCEPT !.id = 123])
  \/ \E i \in 1..2 : LoadSettings(i)
  \/ \E i \in 1..2 : FetchOrder(i)
  \/ \E i \in 1..2 : TagUpdate(i)
  \/ \E i \in 1..2 : LogEvent(i)
  \/ EnvTag

SpecPair == InitPair /\ [][NextPair]_vars

\* ---------------------------------------------------------------------
\* Properties
\* ---------------------------------------------------------------------
Done(s) == s.pc = "done"
HasEntry(s, step) == \E k \in 1..Len(s.flowLog) : s.flowLog[k].step = step
HasEntryAt(s, step, n) ==
  \E k \in 1..Len(s.flowLog) : s.flowLog[k].step = step /\ s.flowLog[k].n = n
CallIdx(s, op) == {k \in 1..Len(s.calls) : s.calls[k].op = op}
NumCalls(s, op) == Cardinality(CallIdx(s, op))
HasCallAt(s, op, n) == \E k \in CallIdx(s, op) : s.calls[k].n = n
AnyActionable(fuls) ==
  \E k \in 1..Len(fuls) : fuls[k].status \in {"success", "open", "processing", "null"}
FirstOpenFOId(fos) ==
  LET open == {k \in 1..Len(fos) : fos[k].status \in {"open", "in_progress"}}
  IN IF open = {} THEN 0
     ELSE fos[CHOOSE k \in open : \A j \in open : k <= j].id
ReconcileRan(s) == s.kind = "webhook" /\ s.attempt >= 1

\* C1: bounded retries.  A webhook run whose reconcile loop started and for
\* which no actionable fulfillment and no open/in_progress fulfillment order
\* ever existed remotely ends after exactly 3 fetch cycles (3 order fetches,
\* 3 scans) with fulfillment outcome failed and retries = 3; no run ever
\* starts a 4th attempt.
C1_BoundedRetries ==
  \A i \in Inv :
    LET s == inv[i]
    IN /\ s.attempt <= 3
       /\ Len(s.scanned) <= 3
       /\ (ReconcileRan(s) /\ Done(s) /\ ~appeared)
            => /\ s.attempt = 3
               /\ Len(s.scanned) = 3
               /\ NumCalls(s, "order.get") = 3
               /\ s.summary.fulfillment.status = "failed"
               /\ s.summary.fulfillment.retries = 3

C1_Witness ==
  \E i \in Inv :
    /\ ReconcileRan(inv[i]) /\ Done(inv[i]) /\ ~appeared
    /\ inv[i].summary.fulfillment.retries = 3
    /\ inv[i].waits = 2

\* C2 as stated: if the snapshot scanned by attempt 1 holds an actionable
\* fulfillment, the run makes exactly 1 fetch cycle, no wait, and reports
\* success with retries = 0.
C2_EarlySuccess_AsStated ==
  \A i \in Inv :
    LET s == inv[i]
    IN (ReconcileRan(s) /\ Done(s) /\ AnyActionable(s.scanned[1]))
         => /\ Len(s.scanned) = 1
            /\ NumCalls(s, "order.get") = 1
            /\ s.waits = 0
            /\ s.summary.fulfillment.status = "success"
            /\ s.summary.fulfillment.retries = 0

\* C2 amended: if the snapshot scanned by attempt 1 holds an actionable
\* fulfillment and the status-transition call of attempt 1 succeeds, the run
\* makes exactly 1 fetch cycle (no re-fetch, no wait, no attempt 2) and
\* reports success with retries = 0.
C2_EarlySuccess ==
  \A i \in Inv :
    LET s == inv[i]
    IN (/\ ReconcileRan(s)
        /\ Len(s.scanned) >= 1
        /\ AnyActionable(s.scanned[1])
        /\ \E k \in CallIdx(s, "fulfillmentEvent.create") :
              s.calls[k].n = 1 /\ s.calls[k].ok)
         => /\ Len(s.scanned) = 1
            /\ s.attempt = 1
            /\ NumCalls(s, "order.get") = 1
            /\ s.waits = 0
            /\ s.summary.fulfillment.status = "success"
            /\ s.summary.fulfillment.retries = 0

C2_Witness ==
  \E i \in Inv :
    /\ ReconcileRan(inv[i]) /\ Done(inv[i])
    /\ AnyActionable(inv[i].scanned[1])
    /\ inv[i].summary.fulfillment.status = "success"
    /\ inv[i].response.code = 200

\* an attempt n of s is over
AttemptOver(s, n) == s.attempt > n \/ s.pc \in {"wait", "logEvent", "done"}

C4_StrategyBSuccessNeedsBoth ==
  \A i \in Inv :
    LET s == inv[i]
    IN (s.kind = "webhook" /\ s.newF.id # 0
        /\ (s.summary.fulfillment.status = "success"
             \/ s.pendingLog.status = "SUCCESS"))
         => \E k \in CallIdx(s, "fulfillmentEvent.create") :
              s.calls[k].arg = s.newF.id /\ s.calls[k].ok

LastCall(s) == s.calls[Len(s.calls)]
NumEntriesAt(s, step, n) ==
  Cardinality({k \in 1..Len(s.flowLog) : s.flowLog[k].step = step /\ s.flowLog[k].n = n})

C6_IdempotentTagging ==
  \A i \in Inv : \A j \in Inv :
    (/\ j = i + 1
     /\ Done(inv[i]) /\ Done(inv[j])
     /\ \A k \in Inv : k > j => inv[k].pc = "idle"
     /\ inv[i].summary.tag.status = "success"
     /\ inv[j].summary.tag.status \in {"success", "exists"}
     /\ inv[j].summary.tag.tagName = inv[i].summary.tag.tagName)
      => /\ inv[j].summary.tag.status = "exists"
         /\ NumCalls(inv[j], "order.update") = 0
         /\ Cardinality(TagSet(remoteTags)) <= Cardinality(TagSet(inv[i].order.tags)) + 1

\* what the fulfillment section reads and writes
FulfillmentView(s) ==
  <<s.pc, s.attempt, s.desiredStatus, s.cur, s.scanned, s.target,
    s.summary.fulfillment, s.pendingLog, s.respAfter, s.waits>>

\* C7: fail-isolation.  A failed tag update gives tag outcome failed with
\* the error captured, raises no Operation Error and no 500, and the
\* fulfillment section is entered in the same way as after a successful
\* tag update; with the fulfillment update enabled the reconcile loop runs.
C7_TagFailureIsolated ==
  /\ [](\A i \in Inv :
         LET s == inv[i]
         IN (s.kind = "webhook" /\ s.summary.tag.status = "failed")
              => /\ s.summary.tag.error # ""
                 /\ HasEntry(s, "Error adding tag")
                 /\ ~HasEntry(s, "Operation Error")
                 /\ s.pendingLog.status # "ERROR"
                 /\ s.response.code \in {0, 200}
                 /\ (Truthy(s.settings.fulfillment_update_enabled)
                      /\ s.settings.fulfillment_status # "")
                      => s.attempt >= 1
                 /\ (Done(s) /\ s.attempt >= 1)
                      => s.summary.fulfillment.status \in {"success", "failed"})
  /\ [][\A i \in Inv :
          (inv[i].pc = "tagUpdate" /\ inv'[i] # inv[i])
            => FulfillmentView(inv'[i]) =
                 FulfillmentView(
                   TagUpdateSucceeded(Call(inv[i], "order.update", inv[i].orderId, TRUE)))]_vars

C7_Witness ==
  \E i \in Inv :
    /\ Done(inv[i])
    /\ inv[i].summary.tag.status = "failed"
    /\ inv[i].summary.fulfillment.status = "success"
    /\ inv[i].response.code = 200

\* C8: manual override, the order's only fulfillment has status success,
\* target in_transit, no remote call other than the re-open failing: the
\* re-open call on that fulfillment precedes a status-event call on it.
C8_ReopenBeforeEvent ==
  \A i \in Inv :
    LET s == inv[i]
    IN (/\ s.kind = "force" /\ Done(s)
        /\ s.desiredStatus = "in_transit"
        /\ HasEntry(s, "Order Fetched")
        /\ s.order.fulfillments = <<Ful(1, "success")>>
        /\ \A k \in 1..Len(s.calls) :
              s.calls[k].op # "fulfillment.open" => s.calls[k].ok)
         => \E k \in CallIdx(s, "fulfillment.open") :
              \E m \in CallIdx(s, "fulfillmentEvent.create") :
                k < m /\ s.calls[k].arg = 1 /\ s.calls[m].arg = 1

\* C9: manual override with a blue-badge target on an order without an
\* open or in_progress fulfillment order goes on to Strategy A / Strategy B
\* instead of ending the invocation.
C9_BlueBadgeFallsThrough ==
  \A i \in Inv :
    LET s == inv[i]
    IN (/\ s.kind = "force"
        /\ s.desiredStatus \in BlueBadge
        /\ HasEntry(s, "No open/in-progress fulfillment order found for this action"))
         => /\ ~Done(s)
            /\ \/ HasEntry(s, "Updating existing legacy fulfillment")
               \/ HasEntry(s, "No active fulfillment found. Checking Fulfillment Orders...")

MarkOps == {"mark_as_out_for_delivery", "mark_as_ready_for_delivery"}

\* C10: blue-badge preservation.  A manual override with a blue-badge
\* target makes no createFulfillment, no createFulfillmentEvent and no
\* re-open call; when the fulfillment-order list it fetched has an open or
\* in_progress entry, the mark action is invoked on the first such entry.
C10_BlueBadgePreserved ==
  /\ [](\A i \in Inv :
         LET s == inv[i]
         IN (s.kind = "force" /\ s.desiredStatus \in BlueBadge)
              => /\ NumCalls(s, "fulfillment.createV2") = 0
                 /\ NumCalls(s, "fulfillmentEvent.create") = 0
                 /\ NumCalls(s, "fulfillment.open") = 0
                 /\ (HasEntry(s, "Found Fulfillment Order to mark") /\ s.pc # "forceMark")
                      => \E k \in 1..Len(s.calls) :
                           /\ s.calls[k].op = MarkEndpoint(s.desiredStatus)
                           /\ s.calls[k].arg = s.target
                 /\ (Done(s) /\ s.response.code = 200)
                      => \E k \in 1..Len(s.calls) :
                           s.calls[k].op \in MarkOps /\ s.calls[k].ok)
  /\ [][\A i \in Inv :
          (/\ inv[i].pc = "forceListFO0" /\ inv'[i] # inv[i]
           /\ LastCall(inv'[i]).ok
           /\ FirstOpenFOId(remoteFOs) # 0)
            => /\ inv'[i].pc = "forceMark"
               /\ inv'[i].target = FirstOpenFOId(remoteFOs)]_vars

C10_Witness ==
  \E i \in Inv :
    /\ inv[i].kind = "force" /\ Done(inv[i])
    /\ inv[i].desiredStatus = "in_transit"
    /\ inv[i].response.code = 200
    /\ \E k \in 1..Len(inv[i].calls) :
         /\ inv[i].calls[k].op = "mark_as_ready_for_delivery"
         /\ inv[i].calls[k].arg = 12 /\ inv[i].calls[k].ok

NoIdentifier(s) == s.kind = "webhook" /\ s.body.id = 0 /\ s.body.nestedId = 0
NumEntries(s, step) ==
  Cardinality({k \in 1..Len(s.flowLog) : s.flowLog[k].step = step})
RowsBy(i) == {k \in 1..Len(logs) : logs[k].by = i}

ExpectedOrderId(body) == IF body.id # 0 THEN body.id ELSE body.nestedId
OrderCalls == {"order.get", "order.update", "order.fulfillmentOrders"}

\* C12: once identity resolution has run, the invocation's order
\* identifier is the payload's top-level id when present and the nested
\* data.order.id only when the top-level id is absent; every remote call
\* addressed to the order carries that identifier; the top-level check
\* appends one trace entry, and the nested check, made only when the
\* top-level id is absent, appends one entry (found, or the error).
C12_IdentifierPriority ==
  \A i \in Inv :
    LET s == inv[i]
    IN (s.kind = "webhook" /\ HasEntry(s, "Initial Order ID check"))
         => /\ s.orderId = ExpectedOrderId(s.body)
            /\ \A k \in 1..Len(s.calls) :
                 s.calls[k].op \in OrderCalls => s.calls[k].arg = ExpectedOrderId(s.body)
            /\ s.calls # <<>> => s.orderId # 0
            /\ NumEntries(s, "Initial Order ID check") = 1
            /\ NumEntries(s, "Found Order ID in nested payload")
                 = (IF s.body.id = 0 /\ s.body.nestedId # 0 THEN 1 ELSE 0)
            /\ NumEntries(s, "Error: No Order ID found")
                 = (IF s.body.id = 0 /\ s.body.nestedId = 0 THEN 1 ELSE 0)
            /\ s.body.id # 0
                 => NumEntries(s, "Found Order ID in nested payload")
                      + NumEntries(s, "Error: No Order ID found") = 0

C12_Witness ==
  \E i \in Inv :
    /\ Done(inv[i])
    /\ inv[i].body.id = 123 /\ inv[i].body.nestedId = 456
    /\ inv[i].summary.fulfillment.status = "success"
    /\ \E k \in CallIdx(inv[i], "order.fulfillmentOrders") : inv[i].calls[k].arg = 123

\* C13: policy gate.  A webhook invocation whose loaded policy has
\* system_enabled = false ends at the gate with the 200 'System disabled'
\* response: no remote order fetch, no tag update, no fulfillment call, no
\* identity resolution and no reconcile attempt.
C13_PolicyGate ==
  \A i \in Inv :
    LET s == inv[i]
    IN /\ (s.kind = "webhook" /\ s.settings.system_enabled = "false")
            => /\ Done(s)
               /\ s.response = [code |-> 200, message |-> "System disabled", flowLog |-> FALSE]
               /\ HasEntry(s, "System Disabled")
               /\ s.calls = <<>>
               /\ s.attempt = 0
               /\ s.orderId = 0
               /\ ~HasEntry(s, "Initial Order ID check")
               /\ s.summary = NoSummary
       /\ (s.kind = "webhook" /\ HasEntry(s, "System Disabled"))
            => ~Truthy(s.settings.system_enabled)

C13_Witness ==
  \E i \in Inv :
    /\ Done(inv[i])
    /\ HasEntry(inv[i], "Settings Loaded")
    /\ inv[i].settings.system_enabled = "false"
    /\ inv[i].body.id = 123
    /\ inv[i].response.message = "System disabled"

MutatingCalls == {"order.update", "fulfillmentEvent.create", "fulfillment.createV2"}

\* C14: fail-open settings.  When the settings read fails the invocation
\* runs with system enabled, tagging disabled and fulfillment update
\* disabled: it is not stopped by the gate, it resolves and fetches the
\* order, it issues no tag update and no fulfillment call, and a run whose
\* order fetch succeeded ends with tag and fulfillment outcomes skipped and
\* the 200 response.
C14_FailOpenSettings ==
  \A i \in Inv :
    LET s == inv[i]
    IN (s.kind = "webhook" /\ HasEntry(s, "Error loading settings"))
         => /\ Truthy(s.settings.system_enabled)
            /\ ~Truthy(s.settings.tagging_enabled)
            /\ ~Truthy(s.settings.fulfillment_update_enabled)
            /\ ~HasEntry(s, "System Disabled")
            /\ ~HasEntry(s, "Settings Loaded")
            /\ HasEntry(s, "Initial Order ID check")
            /\ ~NoIdentifier(s)
                 => /\ s.orderId = ExpectedOrderId(s.body)
                    /\ s.pc = "fetchOrder" \/ NumCalls(s, "order.get") = 1
            /\ \A k \in 1..Len(s.calls) : s.calls[k].op = "order.get"
            /\ s.attempt = 0
            /\ HasEntry(s, "Order Fetched")
                 => /\ s.summary.tag.status = "skipped"
                    /\ s.summary.fulfillment.status = "skipped"
                    /\ HasEntry(s, "Tagging skipped")
                    /\ HasEntry(s, "Fulfillment update skipped")
                    /\ s.pc \in {"logEvent", "done"}
                    /\ s.pendingLog.status = "SUCCESS"
                    /\ Done(s) => s.response.code = 200

C14_Witness ==
  \E i \in Inv :
    /\ Done(inv[i])
    /\ HasEntry(inv[i], "Error loading settings")
    /\ settingsDB.val.tagging_enabled = "true"
    /\ settingsDB.val.fulfillment_update_enabled = "true"
    /\ "tagging_enabled" \in settingsDB.present
    /\ inv[i].summary.tag.status = "skipped"
    /\ inv[i].summary.fulfillment.status = "skipped"
    /\ inv[i].response.code = 200

\* the operator saved a test-email filter through the settings form
FilterSaved(s) ==
  /\ s.kind = "settings" /\ Done(s) /\ s.response.code = 200
  /\ "test_email" \in s.form.given /\ s.form.test_email # ""

\* C15: test-order filter.  After a settings POST that carried a non-empty
\* test email was answered 200, a webhook invocation for an order of another
\* customer email is a pass-through no-op: no tag update, no fulfillment
\* call, no reconcile attempt, and no error response when no call failed.
C15_TestEmailFilter ==
  \A i \in Inv : \A j \in Inv :
    (/\ i < j
     /\ FilterSaved(inv[i])
     /\ inv[j].kind = "webhook"
     /\ inv[j].body.email # inv[i].form.test_email)
      => /\ \A k \in 1..Len(inv[j].calls) : inv[j].calls[k].op \notin MutatingCalls
         /\ inv[j].attempt = 0
         /\ (\A k \in 1..Len(inv[j].calls) : inv[j].calls[k].ok)
              => inv[j].response.code \in {0, 200}

\* every attempt of the reconcile loop of s ended without an update
AllAttemptsFailed(s) ==
  /\ s.kind = "webhook"
  /\ s.attempt = MaxAttempts
  /\ s.pc \in {"logEvent", "done"}
  /\ \A k \in 1..Len(s.calls) :
       s.calls[k].op \in {"fulfillment.createV2", "fulfillmentEvent.create"} => ~s.calls[k].ok

\* C16 as stated: when all attempts of the retry loop failed, the finished
\* invocation has persisted a log record with status WARNING, never ERROR,
\* has fulfillment.status = failed with an error message, and returned 200.
C16_ExhaustionIsWarning_AsStated ==
  \A i \in Inv :
    LET s == inv[i]
    IN (AllAttemptsFailed(s) /\ Done(s))
         => /\ \E k \in RowsBy(i) : logs[k].status = "WARNING"
            /\ \A k \in RowsBy(i) : logs[k].status # "ERROR"
            /\ s.summary.fulfillment.status = "failed"
            /\ s.summary.fulfillment.error # ""
            /\ s.response.code = 200

\* C16 amended: when all attempts of the retry loop failed, the invocation
\* sets fulfillment.status = failed with an error message and retries = 3,
\* submits one log record with status WARNING (never ERROR), which is
\* persisted unless the log store fails, and returns 200 either way.
C16_ExhaustionIsWarning ==
  \A i \in Inv :
    LET s == inv[i]
    IN AllAttemptsFailed(s)
         => /\ s.summary.fulfillment.status = "failed"
            /\ s.summary.fulfillment.error # ""
            /\ s.summary.fulfillment.retries = MaxAttempts
            /\ s.pendingLog.status = "WARNING"
            /\ s.respAfter = 200
            /\ ~HasEntry(s, "Operation Error")
            /\ s.pc = "logEvent" => RowsBy(i) = {}
            /\ Cardinality(RowsBy(i)) <= 1
            /\ \A k \in RowsBy(i) :
                 /\ logs[k].status = "WARNING"
                 /\ logs[k].summary.fulfillment.status = "failed"
            /\ Done(s) => s.response.code = 200 /\ s.response.message = "Success"

C16_Witness ==
  \E i \in Inv :
    /\ AllAttemptsFailed(inv[i]) /\ Done(inv[i])
    /\ \E k \in CallIdx(inv[i], "fulfillmentEvent.create") : inv[i].calls[k].n = 3
    /\ \E k \in RowsBy(i) : logs[k].status = "WARNING"
    /\ inv[i].response.code = 200

\* the first remote call of s, the initial order fetch, failed
InitialFetchFailed(s) ==
  /\ s.kind = "webhook"
  /\ s.calls # <<>>
  /\ s.calls[1].op = "order.get" /\ ~s.calls[1].ok

\* C17 as stated: when the initial order fetch fails, no tag update and no
\* fulfillment call follows, exactly one log record with status ERROR is
\* persisted, and the invocation returns 500.
C17_OperationError_AsStated ==
  \A i \in Inv :
    LET s == inv[i]
    IN (InitialFetchFailed(s) /\ Done(s))
         => /\ Len(s.calls) = 1
            /\ s.attempt = 0
            /\ Cardinality(RowsBy(i)) = 1
            /\ \A k \in RowsBy(i) : logs[k].status = "ERROR"
            /\ s.response.code = 500

\* C17 amended: when the initial order fetch fails, the rest of the
\* invocation is aborted (no tag update, no fulfillment call, no reconcile
\* attempt), one log record with status ERROR is submitted, which is
\* persisted exactly once unless the log store fails (then no record is
\* persisted), and the invocation returns 500 either way.
C17_OperationError ==
  \A i \in Inv :
    LET s == inv[i]
    IN InitialFetchFailed(s)
         => /\ Len(s.calls) = 1
            /\ s.attempt = 0
            /\ s.summary = InitialSummary
            /\ HasEntry(s, "Operation Error")
            /\ ~HasEntry(s, "Order Fetched")
            /\ s.pc \in {"logEvent", "done"}
            /\ s.pendingLog.status = "ERROR"
            /\ s.respAfter = 500
            /\ s.pc = "logEvent" => RowsBy(i) = {}
            /\ Cardinality(RowsBy(i)) <= 1
            /\ \A k \in RowsBy(i) : logs[k].status = "ERROR"
            /\ Done(s)
                 => /\ s.response.code = 500
                    /\ s.response.message = "Error processing order"

C17_Witness ==
  \E i \in Inv :
    /\ InitialFetchFailed(inv[i]) /\ Done(inv[i])
    /\ Truthy(inv[i].settings.tagging_enabled)
    /\ Truthy(inv[i].settings.fulfillment_update_enabled)
    /\ \E k \in RowsBy(i) : logs[k].status = "ERROR"
    /\ inv[i].response.code = 500

\* C18: in the webhook path a log-store failure is swallowed.  The step
\* that awaits logEvent leaves the invocation in one and the same state
\* whether the insert succeeded (one row appended) or failed (no row): the
\* response is the one chosen before the insert, and the tag and
\* fulfillment outcomes, the trace and the sequence of remote calls are
\* untouched, as is the remote order.
C18_LogFailureSwallowed ==
  [][\A i \in Inv :
       (inv[i].kind = "webhook" /\ inv[i].pc = "logEvent" /\ inv'[i] # inv[i])
         => /\ inv'[i].pc = "done"
            /\ inv'[i].response.code = inv[i].respAfter
            /\ inv'[i].response.message = ResponseMessage(inv[i].respAfter)
            /\ inv'[i].summary = inv[i].summary
            /\ inv'[i].calls = inv[i].calls
            /\ inv'[i].flowLog = inv[i].flowLog
            /\ remoteTags' = remoteTags
            /\ remoteFuls' = remoteFuls
            /\ remoteFOs' = remoteFOs
            /\ logs' = logs \/ logs' = Append(logs, LogRow(i))]_vars

\* a run whose log insert failed and whose result is the successful one
C18_Witness ==
  \E i \in Inv :
    /\ inv[i].kind = "webhook" /\ Done(inv[i])
    /\ inv[i].pendingLog.status = "SUCCESS"
    /\ RowsBy(i) = {}
    /\ inv[i].summary.tag.status = "success"
    /\ inv[i].summary.fulfillment.status = "success"
    /\ inv[i].response.code = 200

\* the override's remote status change (mark action or status event) succeeded
StatusChanged(s) ==
  \E k \in 1..Len(s.calls) :
    s.calls[k].op \in MarkOps \cup {"fulfillmentEvent.create"} /\ s.calls[k].ok

\* C19: in the manual override a log-store failure is not propagated: an
\* override whose remote status change succeeded ends with its success
\* response, whether the log insert that follows succeeded or failed.
C19_ForceLogFailureSwallowed ==
  \A i \in Inv :
    LET s == inv[i]
    IN (s.kind = "force" /\ Done(s) /\ StatusChanged(s))
         => /\ s.response.code = 200
            /\ ~HasEntry(s, "FATAL ERROR")

EntryIdx(s, step) == {k \in 1..Len(s.flowLog) : s.flowLog[k].step = step}
EntryIdxAt(s, step, n) == {k \in EntryIdx(s, step) : s.flowLog[k].n = n}
\* some entry step1 of attempt n precedes some entry step2 of attempt n
Precedes(s, step1, step2, n) ==
  \E k \in EntryIdxAt(s, step1, n) : \E m \in EntryIdxAt(s, step2, n) : k < m
TagEntries == {"Tagging skipped", "Tag already exists", "Tag added", "Error adding tag"}
TagEntryOf(status) ==
  IF status = "skipped" THEN "Tagging skipped"
  ELSE IF status = "exists" THEN "Tag already exists"
  ELSE IF status = "success" THEN "Tag added" ELSE "Error adding tag"
NoLegacy == "No legacy fulfillment found. Checking Fulfillment Orders (Strategy B)..."

\* C20: trace completeness.  In a webhook invocation every branch taken
\* leaves at least one trace entry, in the order the branches are taken,
\* with non-decreasing timestamps:
\*  - the tag branch (skipped / exists / success / failed) that set the tag
\*    outcome has its entry, after Order Fetched and before any attempt;
\*  - every attempt whose scan found an actionable fulfillment has the
\*    Strategy A found entry, every other scanned attempt the not-found
\*    entry, after the scan entry of that attempt;
\*  - every attempt whose fulfillment-order list returned has the Strategy B
\*    found entry when a creation was prepared in it, else the not-found
\*    entry, after the Strategy A not-found entry;
\*  - every inter-attempt wait has its entry, the last one of its attempt.
C20_TraceComplete ==
  \A i \in Inv :
    LET s == inv[i]
        fl == s.flowLog
        tagDone == HasEntry(s, "Order Fetched") /\ s.pc # "tagUpdate"
    IN s.kind = "webhook"
         => /\ \A k \in 1..(Len(fl) - 1) :
                 fl[k].t <= fl[k + 1].t /\ fl[k].n <= fl[k + 1].n
            /\ tagDone
                 => /\ HasEntry(s, TagEntryOf(s.summary.tag.status))
                    /\ \A e \in TagEntries :
                         NumEntries(s, e) = (IF e = TagEntryOf(s.summary.tag.status) THEN 1 ELSE 0)
                    /\ \A k \in EntryIdx(s, TagEntryOf(s.summary.tag.status)) :
                         /\ \E m \in EntryIdx(s, "Order Fetched") : m < k
                         /\ \A m \in EntryIdx(s, "Fulfillment Update Attempt") : k < m
                         /\ \A m \in EntryIdx(s, "Fulfillment update skipped") : k < m
            /\ ~tagDone => \A e \in TagEntries : NumEntries(s, e) = 0
            /\ \A n \in 1..Len(s.scanned) :
                 /\ NumEntriesAt(s, "Scanning fulfillments", n) = 1
                 /\ IF AnyActionable(s.scanned[n])
                    THEN /\ Precedes(s, "Scanning fulfillments", "Found target legacy fulfillment", n)
                         /\ ~HasEntryAt(s, NoLegacy, n)
                    ELSE /\ Precedes(s, "Scanning fulfillments", NoLegacy, n)
                         /\ ~HasEntryAt(s, "Found target legacy fulfillment", n)
            /\ \A c \in CallIdx(s, "order.fulfillmentOrders") :
                 LET n == s.calls[c].n
                     prepared == HasCallAt(s, "fulfillment.createV2", n)
                                   \/ (s.attempt = n /\ s.pc = "createV2")
                 IN IF ~s.calls[c].ok
                    THEN Precedes(s, NoLegacy, "Failed to check Fulfillment Orders", n)
                    ELSE IF prepared
                    THEN /\ Precedes(s, NoLegacy, "Found open Fulfillment Order", n)
                         /\ ~HasEntryAt(s, "No open Fulfillment Order found", n)
                    ELSE /\ Precedes(s, NoLegacy, "No open Fulfillment Order found", n)
                         /\ ~HasEntryAt(s, "Found open Fulfillment Order", n)
            /\ NumEntries(s, "Waiting 3s before retry...")
                 = s.waits + (IF s.pc = "wait" THEN 1 ELSE 0)
            /\ \A n \in 1..MaxAttempts :
                 (n < s.attempt \/ (n = s.attempt /\ s.pc = "wait"))
                   => /\ NumEntriesAt(s, "Waiting 3s before retry...", n) = 1
                      /\ \A k \in EntryIdxAt(s, "Waiting 3s before retry...", n) :
                           \A m \in 1..Len(fl) : fl[m].n = n => m <= k

\* a run that took the tag-exists branch, Strategy A not found and Strategy
\* B not found in attempt 1, waited, and found Strategy B's target later
C20_Witness ==
  \E i \in Inv :
    /\ inv[i].kind = "webhook" /\ Done(inv[i])
    /\ inv[i].summary.tag.status = "exists"
    /\ HasEntryAt(inv[i], "No open Fulfillment Order found", 1)
    /\ inv[i].waits >= 1
    /\ HasEntry(inv[i], "Found open Fulfillment Order")
    /\ inv[i].flowLog[1].t < inv[i].flowLog[Len(inv[i].flowLog)].t

\* tagging on with a tag the fetched order does not carry, the update
\* succeeded, fulfillment update off
TagOnlyScenario(s) ==
  /\ s.kind = "webhook"
  /\ HasEntry(s, "Order Fetched")
  /\ Truthy(s.settings.tagging_enabled) /\ s.settings.tag_name # NoStr
  /\ ~Includes(CurrentTags(s.order.tags), s.settings.tag_name)
  /\ \E k \in CallIdx(s, "order.update") : s.calls[k].ok
  /\ ~(Truthy(s.settings.fulfillment_update_enabled) /\ s.settings.fulfillment_status # "")

\* C21 as stated: in that scenario the finished invocation has tag outcome
\* success with the tag name, fulfillment outcome skipped with retries 0,
\* and a persisted SUCCESS log record holding them.
C21_TagOnlyRun_AsStated ==
  \A i \in Inv :
    LET s == inv[i]
    IN (TagOnlyScenario(s) /\ Done(s))
         => /\ s.summary.tag.status = "success"
            /\ s.summary.tag.tagName = s.settings.tag_name
            /\ s.summary.fulfillment.status = "skipped"
            /\ s.summary.fulfillment.retries = 0
            /\ \E k \in RowsBy(i) : logs[k].status = "SUCCESS" /\ logs[k].summary = s.summary

\* C21 amended: in that scenario the invocation has tag outcome success
\* with the tag name and fulfillment outcome skipped with retries 0, submits
\* them in one SUCCESS log record, which is persisted unless the log store
\* fails, and answers 200.
C21_TagOnlyRun ==
  \A i \in Inv :
    LET s == inv[i]
    IN TagOnlyScenario(s)
         => /\ s.summary.tag.status = "success"
            /\ s.summary.tag.tagName = s.settings.tag_name
            /\ s.summary.tag.error = ""
            /\ s.summary.fulfillment.status = "skipped"
            /\ s.summary.fulfillment.retries = 0
            /\ s.attempt = 0
            /\ s.pc \in {"logEvent", "done"}
            /\ s.pendingLog.status = "SUCCESS"
            /\ Cardinality(RowsBy(i)) <= 1
            /\ \A k \in RowsBy(i) : logs[k].status = "SUCCESS" /\ logs[k].summary = s.summary
            /\ Done(s) => s.response.code = 200

C21_Witness ==
  \E i \in Inv :
    /\ TagOnlyScenario(inv[i]) /\ Done(inv[i])
    /\ inv[i].order.tags = <<"b">>
    /\ remoteTags = <<"b", ",", "a">>
    /\ \E k \in RowsBy(i) : logs[k].summary.tag.status = "success"

\* C22: every response of the manual override sent once the trace has been
\* started, success or failure (order not found, no open fulfillment order,
\* remote error), carries the flow trace built so far.
C22_ForceResponseHasTrace ==
  \A i \in Inv :
    (inv[i].kind = "force" /\ Done(inv[i]) /\ inv[i].flowLog # <<>>)
      => inv[i].response.flowLog

\* the policy keys a settings POST supplies
Supplied(s) == s.form.given \cap SettingKeys

\* a step of the settings store writes one supplied key with the supplied value
\* and leaves presence and value of every other key as they were
WritesOneSupplied ==
  settingsDB' # settingsDB =>
    \E i \in Inv :
      /\ inv[i].kind = "settings"
      /\ inv[i].pc = "upsert"
      /\ \E key \in Supplied(inv[i]) :
           /\ key \in settingsDB'.present
           /\ settingsDB'.val[key] = inv[i].form.val[key]
           /\ \A other \in SettingKeys \ {key} :
                /\ settingsDB'.val[other] = settingsDB.val[other]
                /\ (other \in settingsDB'.present) = (other \in settingsDB.present)

\* C23: a settings POST that supplies a subset of the policy keys and is
\* answered 200 has upserted every supplied key with the supplied value, and
\* no step of the write path touches the stored value of any other key.
C23_PartialUpdate ==
  /\ [](\A i \in Inv :
          (inv[i].kind = "settings" /\ Done(inv[i]) /\ inv[i].response.code = 200)
            => \A key \in Supplied(inv[i]) :
                 /\ key \in settingsDB.present
                 /\ settingsDB.val[key] = inv[i].form.val[key])
  /\ [][WritesOneSupplied]_vars

\* a POST of tagging_enabled alone was answered 200: the key holds the posted
\* value and the stored tag_name is still the one that differs from the form's
C23_Witness ==
  /\ inv[1].kind = "settings" /\ Done(inv[1]) /\ inv[1].response.code = 200
  /\ Supplied(inv[1]) = {"tagging_enabled"}
  /\ settingsDB.val["tagging_enabled"] = inv[1].form.val["tagging_enabled"]
  /\ "tag_name" \in settingsDB.present
  /\ settingsDB.val["tag_name"] # inv[1].form.val["tag_name"]

\* the JSON text of the string "false"
StringFalse == "\"false\""

\* C24: a stored system_enabled / tagging_enabled / fulfillment_update_enabled
\* that is the literal string "false" is treated as false by the webhook: the
\* first short-circuits the invocation before any remote call, the second
\* yields the tag outcome skipped, the third the fulfillment outcome skipped.
C24_StringFalseIsFalse ==
  \A i \in Inv :
    (inv[i].kind = "webhook" /\ Done(inv[i]) /\ HasEntry(inv[i], "Settings Loaded"))
      => /\ inv[i].settings.system_enabled = StringFalse
              => /\ inv[i].response.message = "System disabled"
                 /\ inv[i].calls = <<>>
         /\ (inv[i].settings.tagging_enabled = StringFalse
               /\ inv[i].summary.tag.status # "none")
              => inv[i].summary.tag.status = "skipped"
         /\ (inv[i].settings.fulfillment_update_enabled = StringFalse
               /\ inv[i].summary.fulfillment.status # "none")
              => inv[i].summary.fulfillment.status = "skipped"

\* the list scanned last
LastScanned(s) == s.scanned[Len(s.scanned)]

\* a step in which invocation i scans a list in an attempt n >= 2
ScansLater(i) ==
  /\ inv'[i].kind = "webhook"
  /\ Len(inv'[i].scanned) > Len(inv[i].scanned)
  /\ inv'[i].attempt >= 2

\* C25: in every attempt n >= 2 the scan follows an order fetch issued in
\* attempt n, and when that fetch succeeds the list scanned is the list the
\* remote system returned to it, never a list obtained earlier.
C25_Freshness ==
  [][\A i \in Inv :
       ScansLater(i) =>
         /\ Len(inv'[i].calls) = Len(inv[i].calls) + 1
         /\ LastCall(inv'[i]).op = "order.get"
         /\ LastCall(inv'[i]).n = inv'[i].attempt
         /\ LastCall(inv'[i]).ok => LastScanned(inv'[i]) = remoteFuls]_vars

\* attempt 2 fetched successfully and scanned a list that differs from the
\* one scanned in attempt 1
C25_Witness ==
  \E i \in Inv :
    /\ inv[i].kind = "webhook"
    /\ Len(inv[i].scanned) >= 2
    /\ \E k \in CallIdx(inv[i], "order.get") : inv[i].calls[k].n = 2 /\ inv[i].calls[k].ok
    /\ inv[i].scanned[2] # inv[i].scanned[1]
    /\ inv[i].scanned[2] = remoteFuls

\* the order fetch of attempt n (n >= 2) returned / threw
FetchOkAt(s, n) == \E k \in CallIdx(s, "order.get") : s.calls[k].n = n /\ s.calls[k].ok
FetchFailedAt(s, n) == \E k \in CallIdx(s, "order.get") : s.calls[k].n = n /\ ~s.calls[k].ok

\* the latest attempt before n that holds a successfully fetched list
\* (attempt 1 holds the list of the initial fetch)
LastFetched(s, n) ==
  CHOOSE m \in 1..(n - 1) :
    /\ m = 1 \/ FetchOkAt(s, m)
    /\ \A j \in (m + 1)..(n - 1) : ~FetchOkAt(s, j)

\* C26: when the order re-fetch of attempt n >= 2 throws, the attempt goes
\* on: the error is in the trace and the attempt scans the most recent list
\* successfully fetched by an earlier attempt of the same invocation.
C26_RefetchFailureKeepsLastSnapshot ==
  \A i \in Inv :
    inv[i].kind = "webhook" =>
      \A n \in 2..Len(inv[i].scanned) :
        FetchFailedAt(inv[i], n) =>
          /\ HasEntryAt(inv[i], "Error re-fetching order", n)
          /\ HasEntryAt(inv[i], "Scanning fulfillments", n)
          /\ inv[i].scanned[n] = inv[i].scanned[LastFetched(inv[i], n)]

\* C27: a reconcile that succeeds in attempt n (1 <= n <= 3) reports
\* retries = n - 1; every finished invocation has 0 <= retries <= 3, and
\* retries = 3 only with fulfillment status failed.
C27_RetryCounter ==
  \A i \in Inv :
    inv[i].kind = "webhook" =>
      /\ inv[i].summary.fulfillment.status = "success"
           => /\ inv[i].attempt \in 1..MaxAttempts
              /\ inv[i].summary.fulfillment.retries = inv[i].attempt - 1
      /\ Done(inv[i])
           => /\ inv[i].summary.fulfillment.retries \in 0..3
              /\ inv[i].summary.fulfillment.retries = 3
                   => inv[i].summary.fulfillment.status = "failed"

\* a finished invocation whose Strategy B succeeded in the third attempt
C27_Witness ==
  \E i \in Inv :
    /\ inv[i].kind = "webhook" /\ Done(inv[i])
    /\ inv[i].summary.fulfillment.status = "success"
    /\ inv[i].attempt = 3
    /\ inv[i].summary.fulfillment.retries = 2
    /\ HasCallAt(inv[i], "fulfillment.createV2", 3)

WaitEntry == "Waiting 3s before retry..."

\* C28: the inter-attempt wait occurs exactly once between a failed attempt
\* n < 3 and attempt n + 1, never after a successful attempt and never after
\* the failed final attempt; an invocation performs at most 2 waits.
C28_WaitPlacement ==
  \A i \in Inv :
    inv[i].kind = "webhook" =>
      /\ inv[i].waits <= 2
      /\ inv[i].attempt >= 1 => inv[i].waits = inv[i].attempt - 1
      /\ inv[i].pc = "wait"
           => /\ inv[i].attempt < MaxAttempts
              /\ ~inv[i].fulfillmentUpdated
              /\ inv[i].summary.fulfillment.status # "success"
      /\ \A n \in 1..MaxAttempts :
           /\ NumEntriesAt(inv[i], WaitEntry, n) <= 1
           /\ NumEntriesAt(inv[i], WaitEntry, n) = 1
                => /\ n < MaxAttempts
                   /\ inv[i].attempt > n \/ inv[i].pc = "wait"
      /\ inv[i].summary.fulfillment.status = "success"
           => ~HasEntryAt(inv[i], WaitEntry, inv[i].attempt)

\* all three attempts failed after two waits, and none followed the last
C28_Witness ==
  \E i \in Inv :
    /\ inv[i].kind = "webhook" /\ Done(inv[i])
    /\ inv[i].summary.fulfillment.status = "failed"
    /\ inv[i].waits = 2
    /\ HasEntryAt(inv[i], WaitEntry, 1) /\ HasEntryAt(inv[i], WaitEntry, 2)
    /\ ~HasEntryAt(inv[i], WaitEntry, 3)

\* the trace entries the loop's catch clauses write for a failed call
CatchEntries(op) ==
  IF op = "order.get" THEN {"Error re-fetching order"}
  ELSE IF op = "fulfillmentEvent.create"
  THEN {"Error updating fulfillment event", "Error adding status event"}
  ELSE {"Failed to check Fulfillment Orders"}

\* the failed remote calls made inside the retry loop
LoopFailures(s) == {k \in 1..Len(s.calls) : s.calls[k].n >= 1 /\ ~s.calls[k].ok}

\* C29: once the retry loop has started, every failed remote call made in
\* it is caught and appears in the trace of its attempt; the invocation ends
\* neither with an ERROR record nor with a 500 response, and the failed
\* fulfillment outcome is reported only after all 3 attempts were used.
C29_LoopFailuresContained ==
  \A i \in Inv :
    (inv[i].kind = "webhook" /\ inv[i].attempt >= 1) =>
      /\ \A k \in LoopFailures(inv[i]) :
           \E step \in CatchEntries(inv[i].calls[k].op) :
             HasEntryAt(inv[i], step, inv[i].calls[k].n)
      /\ ~HasEntry(inv[i], "Operation Error")
      /\ inv[i].pendingLog.status # "ERROR"
      /\ \A r \in RowsBy(i) : logs[r].status # "ERROR"
      /\ Done(inv[i]) => inv[i].response.code = 200
      /\ inv[i].summary.fulfillment.status = "failed"
           => /\ inv[i].attempt = MaxAttempts
              /\ Len(inv[i].scanned) = MaxAttempts

\* a finished invocation in whose loop the re-fetch, the listing and the
\* fulfillment creation failed, answered 200 with a logged row
C29_Witness ==
  \E i \in Inv :
    /\ inv[i].kind = "webhook" /\ Done(inv[i])
    /\ inv[i].response.code = 200
    /\ RowsBy(i) # {}
    /\ \E k \in LoopFailures(inv[i]) : inv[i].calls[k].op = "order.get"
    /\ \E k \in LoopFailures(inv[i]) : inv[i].calls[k].op = "order.fulfillmentOrders"
    /\ \E k \in LoopFailures(inv[i]) : inv[i].calls[k].op = "fulfillment.createV2"

\* what the payload supplies for the tracking fields
PayloadNumbers(body) ==
  {body.awb_no, body.data_awb_no, body.tracking_number, body.data_tracking_number} \ {""}
PayloadCompanies(body) == {body.tracking_company, body.data_tracking_company} \ {""}
PayloadUrls(body) == {body.tracking_url, body.data_tracking_url} \ {""}

\* the invocation has built a Strategy B creation request
BuiltParams(s) ==
  s.kind = "webhook" /\ (s.pc = "createV2" \/ NumCalls(s, "fulfillment.createV2") > 0)

\* C30: the Strategy B creation request of the webhook carries tracking info
\* and notify_customer = true exactly when the target status is in_transit
\* or out_for_delivery; then the number is one the payload supplies, or
\* "PENDING" when it supplies none, the company likewise with "Local
\* Delivery", and the url is present only when the payload supplies one.
C30_TrackingInfo ==
  \A i \in Inv :
    BuiltParams(inv[i]) =>
      LET p == inv[i].params
          body == inv[i].body
          tracked == inv[i].settings.fulfillment_status \in {"in_transit", "out_for_delivery"}
      IN /\ p.notify_customer = tracked
         /\ (p.number # "") = tracked
         /\ (p.company # "") = tracked
         /\ tracked =>
              /\ IF PayloadNumbers(body) = {} THEN p.number = "PENDING"
                 ELSE p.number \in PayloadNumbers(body)
              /\ IF PayloadCompanies(body) = {} THEN p.company = "Local Delivery"
                 ELSE p.company \in PayloadCompanies(body)
              /\ IF PayloadUrls(body) = {} THEN p.url = ""
                 ELSE p.url \in PayloadUrls(body)
         /\ ~tracked => p.url = ""

\* a creation request was sent for target in_transit with a payload that
\* supplies no tracking field: number and company are the fallbacks, no url
C30_Witness ==
  \E i \in Inv :
    /\ inv[i].kind = "webhook"
    /\ NumCalls(inv[i], "fulfillment.createV2") > 0
    /\ inv[i].settings.fulfillment_status = "in_transit"
    /\ PayloadNumbers(inv[i].body) = {} /\ PayloadUrls(inv[i].body) = {}
    /\ inv[i].params.number = "PENDING"
    /\ inv[i].params.company = "Local Delivery"
    /\ inv[i].params.url = ""
    /\ inv[i].params.notify_customer

\* the calls of the override that create a fulfillment / a status event
Creations(s) == CallIdx(s, "fulfillment.createV2")
Events(s) == CallIdx(s, "fulfillmentEvent.create")

\* C31: the manual override is single-attempt.  Per invocation it makes at
\* most one fulfillment-creation call and at most one status-event call, a
\* failed one is its last remote call (no retry), and when it creates a
\* fulfillment the status event comes after the successful creation and the
\* settle delay, and is addressed to the id of the new fulfillment.
C31_ForceSingleAttempt ==
  \A i \in Inv :
    inv[i].kind = "force" =>
      /\ Cardinality(Creations(inv[i])) <= 1
      /\ Cardinality(Events(inv[i])) <= 1
      /\ inv[i].waits <= 1
      /\ \A k \in Creations(inv[i]) \cup Events(inv[i]) :
           ~inv[i].calls[k].ok
             => /\ k = Len(inv[i].calls)
                /\ Done(inv[i]) /\ inv[i].response.code = 500
      /\ \A c \in Creations(inv[i]) :
           /\ inv[i].waits = 1 => inv[i].calls[c].ok
           /\ inv[i].pc = "forceEventB" => inv[i].waits = 1
           /\ \A e \in Events(inv[i]) :
                /\ inv[i].calls[c].ok
                /\ c < e
                /\ inv[i].waits = 1
                /\ inv[i].calls[e].arg = inv[i].newF.id
      /\ Creations(inv[i]) = {} => inv[i].waits = 0

\* an override created a fulfillment, waited once and then set the status
\* of the new fulfillment
C31_Witness ==
  \E i \in Inv :
    /\ inv[i].kind = "force" /\ Done(inv[i]) /\ inv[i].response.code = 200
    /\ \E c \in Creations(inv[i]) : \E e \in Events(inv[i]) :
         /\ inv[i].calls[c].ok /\ inv[i].calls[e].ok /\ c < e
         /\ inv[i].calls[e].arg = inv[i].newF.id
    /\ inv[i].waits = 1

\* C32: in the webhook and in the manual override alike, the first
\* fulfillment in list order whose status is success, open, processing or
\* null is the Strategy A target; a null status never makes Strategy A step
\* aside for the fulfillment orders.
C32_PermissiveActionable ==
  \A i \in Inv :
    /\ inv[i].kind = "webhook" =>
         \A n \in 1..Len(inv[i].scanned) :
           LET k == FirstIndex(inv[i].scanned[n], IsActionable)
           IN k > 0 =>
                /\ HasEntryAt(inv[i], "Found target legacy fulfillment", n)
                /\ ~HasEntryAt(inv[i], NoLegacy, n)
                /\ n = inv[i].attempt => inv[i].target = inv[i].scanned[n][k].id
    /\ (inv[i].kind = "force" /\ HasEntry(inv[i], "Order Fetched")
          /\ inv[i].desiredStatus \notin BlueBadge) =>
         LET k == FirstIndex(inv[i].order.fulfillments, IsActionable)
         IN k > 0 =>
              /\ HasEntry(inv[i], "Updating existing legacy fulfillment")
              /\ ~HasEntry(inv[i], "No active fulfillment found. Checking Fulfillment Orders...")
              /\ inv[i].target = inv[i].order.fulfillments[k].id

\* the tagging step of the invocation has reached its outcome
Tagged(s) == s.kind = "webhook" /\ \E step \in TagEntries : HasEntry(s, step)

\* the tag name is one of the trimmed tokens of the fetched tags, letter for letter
OnOrder(s) == Includes(CurrentTags(s.order.tags), s.settings.tag_name)

\* C33: the tagging step issues at most one tag-update call per invocation
\* and none when the outcome is skipped (tagging disabled or empty tag name)
\* or exists (the tag name equals a trimmed token of the order's tags, case
\* included); the remote tags change only in the step of a successful update.
C33_TagUpdateCalls ==
  /\ [](\A i \in Inv :
          inv[i].kind = "webhook" =>
            /\ NumCalls(inv[i], "order.update") <= 1
            /\ inv[i].summary.tag.status \in {"skipped", "exists"}
                 => NumCalls(inv[i], "order.update") = 0
            /\ Tagged(inv[i]) =>
                 /\ inv[i].summary.tag.status = "skipped"
                      <=> (~Truthy(inv[i].settings.tagging_enabled)
                             \/ inv[i].settings.tag_name = NoStr)
                 /\ inv[i].summary.tag.status = "exists"
                      <=> (Truthy(inv[i].settings.tagging_enabled)
                             /\ inv[i].settings.tag_name # NoStr /\ OnOrder(inv[i])))
  /\ [][remoteTags' # remoteTags =>
          \E i \in Inv :
            /\ inv[i].pc = "tagUpdate"
            /\ inv'[i].summary.tag.status = "success"
            /\ NumCalls(inv'[i], "order.update") = 1]_vars

\* a finished invocation found its tag on the order, next to a token that
\* differs from it, and issued no update: the remote tags are as fetched
C33_Witness ==
  \E i \in Inv :
    /\ inv[i].kind = "webhook" /\ Done(inv[i])
    /\ inv[i].summary.tag.status = "exists"
    /\ NumCalls(inv[i], "order.update") = 0
    /\ Len(CurrentTags(inv[i].order.tags)) = 2
    /\ remoteTags = inv[i].order.tags

\* C35: if every remote call and every wait returns or fails in the end,
\* every webhook invocation reaches a terminal state; a response has been
\* sent exactly in the terminal states and is never followed by another,
\* and the retry loop never runs more than 3 attempts.
C35_Termination ==
  /\ (inv[1].kind = "webhook") ~> Done(inv[1])
  /\ [](inv[1].kind = "webhook" =>
          /\ inv[1].attempt <= MaxAttempts
          /\ Len(inv[1].scanned) <= MaxAttempts
          /\ (inv[1].response.code # 0) = Done(inv[1]))
  /\ [][inv[1].response.code # 0 => inv'[1] = inv[1]]_vars

\* an invocation that used its three attempts, each with failing remote
\* calls, and has answered
C35_Witness ==
  /\ inv[1].kind = "webhook" /\ Done(inv[1])
  /\ inv[1].attempt = MaxAttempts
  /\ inv[1].response.code = 200
  /\ \A n \in 1..MaxAttempts : \E k \in LoopFailures(inv[1]) : inv[1].calls[k].n = n

IsPrefix(a, b) == Len(a) <= Len(b) /\ SubSeq(b, 1, Len(a)) = a

\* C34: in any interleaving of two webhook invocations, a step changes the
\* in-memory state (trace, summary and the rest) of at most one invocation
\* and only extends that invocation's own trace; a record that is persisted
\* carries the trace and the summary of the invocation that wrote it; the
\* other writer on the remote system touches no invocation and no record,
\* and no invocation writes the settings both of them read.
C34_Isolation ==
  [][/\ \A i \in Inv :
          inv'[i] # inv[i] =>
            /\ \A j \in Inv \ {i} : inv'[j] = inv[j]
            /\ inv[i].pc # "idle" => IsPrefix(inv[i].flowLog, inv'[i].flowLog)
     /\ logs' # logs =>
          /\ Len(logs') = Len(logs) + 1
          /\ IsPrefix(logs, logs')
          /\ LET r == logs'[Len(logs')]
             IN /\ inv[r.by].pc = "logEvent" /\ Done(inv'[r.by])
                /\ r.flow_log = inv'[r.by].flowLog
                /\ r.summary = inv'[r.by].summary
     /\ envSteps' # envSteps => inv' = inv /\ logs' = logs
     /\ settingsDB' = settingsDB]_vars

\* two invocations ran interleaved (each fetched the order before the other
\* one updated it, so both added the tag) and each persisted its own record
C34_Witness ==
  /\ Done(inv[1]) /\ Done(inv[2])
  /\ inv[1].summary.tag.status = "success" /\ inv[2].summary.tag.status = "success"
  /\ inv[1].settings.tag_name = <<"a">> /\ inv[2].settings.tag_name = <<"a">>
  /\ envSteps = 0
  /\ Len(logs) = 2
  /\ \A k \in 1..2 : logs[k].flow_log = inv[logs[k].by].flowLog
  /\ logs[1].by # logs[2].by

\* C36: a tag that another writer added to the remote order after the
\* invocation fetched the order and before its tag-update call is still on
\* the remote order after that call.
C36_UpdateKeepsForeignTags ==
  [][\A i \in Inv :
       (/\ inv[i].pc = "tagUpdate"
        /\ inv'[i].summary.tag.status = "success"
        /\ ~Includes(CurrentTags(inv[i].order.tags), OtherTag)
        /\ Includes(CurrentTags(remoteTags), OtherTag))
         => Includes(CurrentTags(remoteTags'), OtherTag)]_vars

\* how often the tag occurs among the trimmed tokens of a tag string
Occurrences(tags, tag) ==
  Cardinality({k \in 1..Len(CurrentTags(tags)) : CurrentTags(tags)[k] = tag})

\* C39: after two webhook invocations for the same order with the same tag
\* name have finished, in whatever interleaving, with succeeding tag updates
\* and no other writer, the tag occurs exactly once in the remote order's
\* tag list and every tag an invocation read is still present.
C39_IdempotentUnderInterleaving ==
  (/\ Done(inv[1]) /\ Done(inv[2])
   /\ inv[1].kind = "webhook" /\ inv[2].kind = "webhook"
   /\ envSteps = 0
   /\ \A i \in 1..2 :
        /\ inv[i].summary.tag.status \in {"success", "exists"}
        /\ inv[i].summary.tag.tagName = inv[1].summary.tag.tagName)
    => /\ Occurrences(remoteTags, Trim(inv[1].summary.tag.tagName)) = 1
       /\ \A i \in 1..2 : TagSet(inv[i].order.tags) \subseteq TagSet(remoteTags)

\* C37: a webhook invocation persists at most one log record; with the
\* system enabled and an order id resolved it submits one, which the log
\* store, when available, appends as the invocation's only record; the
\* record is written after the last trace entry and the last summary
\* change, so it carries the final trace and the final outcome.
C37_OneRecord ==
  /\ [](\A i \in Inv :
          inv[i].kind = "webhook" =>
            /\ Cardinality(RowsBy(i)) <= 1
            /\ \A r \in RowsBy(i) :
                 /\ Done(inv[i])
                 /\ logs[r].flow_log = inv[i].flowLog
                 /\ logs[r].summary = inv[i].summary
                 /\ logs[r].status = inv[i].pendingLog.status
            /\ (Done(inv[i]) /\ inv[i].orderId # 0) => inv[i].pendingLog.status # ""
            /\ (Done(inv[i]) /\ inv[i].pendingLog.status = "") => RowsBy(i) = {})
  /\ [][\A i \in Inv :
          (inv[i].kind = "webhook" /\ inv[i].pc = "logEvent" /\ inv'[i] # inv[i])
            => /\ RowsBy(i) = {}
               /\ Done(inv'[i])
               /\ \/ logs' = logs
                  \/ /\ Len(logs') = Len(logs) + 1
                     /\ IsPrefix(logs, logs')
                     /\ logs'[Len(logs')].by = i]_vars

\* a finished invocation that used all three attempts and whose single
\* record holds its whole trace and its failed outcome
C37_Witness ==
  \E i \in Inv :
    /\ inv[i].kind = "webhook" /\ Done(inv[i])
    /\ Cardinality(RowsBy(i)) = 1
    /\ \A r \in RowsBy(i) :
         /\ logs[r].status = "WARNING"
         /\ logs[r].flow_log = inv[i].flowLog
         /\ logs[r].summary.fulfillment.status = "failed"
         /\ Len(logs[r].flow_log) > 10

\* the successful calls of an operation, and the mutation calls after call k
Succeeded(s, op) == {k \in CallIdx(s, op) : s.calls[k].ok}
MutationsAfter(s, k) ==
  {m \in (k + 1)..Len(s.calls) : s.calls[m].op \in MutatingCalls}

\* C38 as stated: per webhook invocation at most one fulfillment creation
\* and at most one status event succeed, and after a successful Strategy A
\* event or a successful Strategy B creation the invocation makes no
\* further remote mutation call.
C38_SingleMutation_AsStated ==
  \A i \in Inv :
    inv[i].kind = "webhook" =>
      /\ Cardinality(Succeeded(inv[i], "fulfillment.createV2")) <= 1
      /\ Cardinality(Succeeded(inv[i], "fulfillmentEvent.create")) <= 1
      /\ \A k \in Succeeded(inv[i], "fulfillmentEvent.create")
                  \cup Succeeded(inv[i], "fulfillment.createV2") :
           MutationsAfter(inv[i], k) = {}

\* C38: per webhook invocation at most one fulfillment creation and at most
\* one status event succeed; after a successful Strategy A event there is no
\* further remote call, and after a successful Strategy B creation the only
\* further remote call is the one status event on the new fulfillment, in
\* the same attempt; so retries never create a second fulfillment.
C38_SingleMutation ==
  \A i \in Inv :
    inv[i].kind = "webhook" =>
      /\ Cardinality(Succeeded(inv[i], "fulfillment.createV2")) <= 1
      /\ Cardinality(Succeeded(inv[i], "fulfillmentEvent.create")) <= 1
      /\ \A k \in Succeeded(inv[i], "fulfillmentEvent.create") : k = Len(inv[i].calls)
      /\ \A k \in Succeeded(inv[i], "fulfillment.createV2") :
           /\ Len(inv[i].calls) <= k + 1
           /\ Len(inv[i].calls) = k + 1
                => /\ inv[i].calls[k + 1].op = "fulfillmentEvent.create"
                   /\ inv[i].calls[k + 1].arg = inv[i].newF.id
                   /\ inv[i].calls[k + 1].n = inv[i].calls[k].n
           /\ inv[i].attempt = inv[i].calls[k].n

\* earlier attempts failed at their mutation calls, the third created a
\* fulfillment and set its status, and nothing followed
C38_Witness ==
  \E i \in Inv :
    /\ inv[i].kind = "webhook" /\ Done(inv[i])
    /\ inv[i].attempt = 3
    /\ \E k \in Succeeded(inv[i], "fulfillment.createV2") :
         /\ k + 1 = Len(inv[i].calls)
         /\ inv[i].calls[k + 1].ok
    /\ \E m \in CallIdx(inv[i], "fulfillment.createV2") : ~inv[i].calls[m].ok
====
